---- MODULE Spec2Model ----
(***************************************************************************)
(* Model of the mod/DLC discovery core of the ETS2 Twitch mod bot:         *)
(*   src/decrypt.py     SIIDecryptor                                       *)
(*   src/lib/parser.py  ModParser                                          *)
(*   src/lib/cache.py   ModCache                                           *)
(*                                                                         *)
(* Bytes are integers 0..255, text is a sequence of code points, None is   *)
(* the record NoneVal.  The filesystem is assumed to perform the reads,    *)
(* writes and unlinks it is asked to perform; a file that cannot be        *)
(* opened is the explicit flag `readable`.                                 *)
(***************************************************************************)
EXTENDS Integers, Sequences, FiniteSets, TLC

VARIABLES
    \* ---- SIIDecryptor.decrypt_file (src/decrypt.py) ----
    HAS_CRYPTO,     \* module flag: pycryptodome importable
    data,           \* bytes of the file handed to decrypt_file
    readable,       \* FALSE when opening the file raises
    dresult,        \* value returned by decrypt_file
    dpc,            \* "call" before, "done" after decrypt_file
    \* ---- ModParser._extract_mods_from_content (src/lib/parser.py) ----
    matches,        \* what _ACTIVE_MODS_RE.findall(content) yields, in document order
    mods,           \* list returned by _extract_mods_from_content
    xpc,            \* "call" before, "done" after the extraction
    \* ---- ModCache (src/lib/cache.py) ----
    cache,          \* self._cache: a function from the keys present to their values
    file,           \* the backing file self.cache_file: [exists, doc]
    lock,           \* self._lock: 0 when free, else the task holding it
    lastOp,         \* the cache operation that acted last: [op, key, result, held]
    lastSet,        \* the latest completed set(k, v) not followed by a clear or another set
    \* ---- the tasks of the event loop ----
    pc,             \* pc[t]: where task t is suspended
    key,            \* key[t]: cache key (archive filename) task t is working on
    val,            \* val[t]: value task t is writing with set()
    cmd,            \* cmd[t]: what task t runs: "none", "set", "mods", "refreshmods"
    idx,            \* idx[t]: number of archives _parse_from_folder has handled
    out,            \* out[t]: the list _parse_from_folder has built so far
    ret,            \* ret[t]: what get_active_mods returned: [done, mods]
    missed,         \* missed[t]: the resolution in progress found its key missing
    \* ---- the filesystem and the network seen by ModParser ----
    profiles,       \* the profile directories in iteration order
    modFolder,      \* the .scs archives of the mod folder: filename -> manifest name or None
    \* ---- CooldownManager (src/lib/bot_core.py) ----
    user_cooldowns,     \* self.user_cooldowns: user -> time of the last accepted command
    global_cooldowns,   \* self.global_cooldowns: "refreshmods" -> time of the last accepted refresh
    now,                \* the event loop's clock
    lastCheck,          \* the latest check_cooldown call: [valid, user, command, ok, scope, at]
    acceptedAt,         \* per user and for "refreshmods": time of the latest accepted check, -1 if none
    \* ---- the command handlers of ETS2ModBot ----
    user,           \* user[t]: ctx.author.name of the command task t serves
    reply,          \* reply[t]: what the handler sent: "none", "wait", "reply"; or how a failed
                    \* send ended: "escaped", "chunk_lost", "failure", "notice_lost"
    dlc,            \* dlc[t]: the handler has run DLCDetector.get_active_dlc
    bootStore,      \* the mapping the backing file held when this run of the bot started
    resolved,       \* filename -> the name its latest resolution returned, since the last clear
    prov,           \* [stale, tainted]: stale[t]: a clear ran since the resolution task t has
                    \* in flight began; tainted: the keys whose entry such a resolution wrote
    \* ---- ModParser._get_mod_display_name taken alone ----
    rin,            \* its inputs: [filename, cached, getRaises, manifest, steam, setRaises]
    rout,           \* what it returned: [raised, name, step, written]
    rpc,            \* "call" before, "done" after
    \* ---- SingleInstanceLock (src/lib/bot_core.py) ----
    HAS_PSUTIL,     \* module flag: psutil importable
    lock_file,      \* the marker file self.lock_file: [exists, text]
    ipc,            \* ipc[p]: where process p is in acquire() / release()
    iraw,           \* iraw[p]: what process p read from the marker
    \* ---- ETS2ModBot._send_chunked_message ----
    response,       \* the message the method was called with
    limit,          \* its limit argument
    message,        \* what is still to be sent
    sent,           \* the segments passed to ctx.send so far
    \* ---- ModParser._analyze_profile taken alone ----
    lines,          \* the text after the colon of every line holding "active_mods:", in order
    active_mods_count,  \* the mods_count it reported
    apc             \* "call" before, "done" after

decVars == <<HAS_CRYPTO, data, readable, dresult, dpc>>
extVars == <<matches, mods, xpc>>
cacheVars == <<cache, file, lock, lastOp, lastSet>>
taskVars == <<pc, key, val>>
scanVars == <<cmd, idx, out, ret, missed>>
envVars == <<profiles, modFolder>>
pureVars == <<decVars, extVars>>
coolVars == <<user_cooldowns, global_cooldowns, now, lastCheck, acceptedAt>>
replyVars == <<user, reply, dlc>>
instVars == <<HAS_PSUTIL, lock_file, ipc, iraw>>
resVars == <<rin, rout, rpc>>
chunkVars == <<response, limit, message, sent>>
countVars == <<lines, active_mods_count, apc>>
sideVars == <<coolVars, instVars, resVars, chunkVars, countVars>>
histVars == <<bootStore, resolved, prov>>
vars == <<decVars, extVars, cacheVars, taskVars, scanVars, envVars,
          coolVars, replyVars, histVars, instVars, resVars, chunkVars, countVars>>

----------------------------------------------------------------------------
(* Generic helpers *)

Min(a, b) == IF a < b THEN a ELSE b

\* s[from..] in Python slicing terms (from is a 0-based offset)
Drop(s, n) == SubSeq(s, Min(n, Len(s)) + 1, Len(s))

\* s[:n]
Take(s, n) == SubSeq(s, 1, Min(n, Len(s)))

\* all sequences over S of length 0..n
SeqsUpTo(S, n) == UNION {[1..k -> S] : k \in 0..n}

\* d[k] = v on a dict
DictSet(d, k, v) == [x \in DOMAIN d \cup {k} |-> IF x = k THEN v ELSE d[x]]

NoneVal == [isNone |-> TRUE, text |-> <<>>]
Str(t) == [isNone |-> FALSE, text |-> t]

----------------------------------------------------------------------------
(* src/decrypt.py *)

SII_SIGNATURE_ENCRYPTED == 1131635539   \* 0x43736353, "ScsC"
SII_SIGNATURE_NORMAL == 1315531091      \* 0x4E696953, "SiiN"

\* struct.unpack("<I", b)[0] for a 4-byte sequence b
UnpackLE32(b) == b[1] + 256 * b[2] + 65536 * b[3] + 16777216 * b[4]

IsContinuation(b) == b >= 128 /\ b <= 191

\* bytes.decode("utf-8", errors="ignore") on byte sequences made of ASCII
\* bytes, two-byte lead bytes (0xC2..0xDF), continuation bytes and bytes that
\* are never valid: an invalid byte is dropped and decoding resumes at the
\* next byte.
RECURSIVE Utf8DecodeIgnore(_)
Utf8DecodeIgnore(b) ==
    IF b = <<>> THEN <<>>
    ELSE IF b[1] < 128 THEN <<b[1]>> \o Utf8DecodeIgnore(Tail(b))
    ELSE IF b[1] >= 194 /\ b[1] <= 223 /\ Len(b) >= 2 /\ IsContinuation(b[2])
         THEN <<(b[1] - 192) * 64 + (b[2] - 128)>> \o Utf8DecodeIgnore(Drop(b, 2))
    ELSE Utf8DecodeIgnore(Tail(b))

\* universal-newline translation of a text-mode read: "\r\n" and "\r" become "\n"
RECURSIVE TranslateNewlines(_)
TranslateNewlines(t) ==
    IF t = <<>> THEN <<>>
    ELSE IF t[1] = 13
         THEN <<10>> \o TranslateNewlines(IF Len(t) >= 2 /\ t[2] = 10
                                          THEN Drop(t, 2) ELSE Tail(t))
    ELSE <<t[1]>> \o TranslateNewlines(Tail(t))

\* Texts that AES-CBC decryption followed by the zlib attempt and the
\* decode can produce for a non-empty payload; the cipher is not computed,
\* every output is possible.
AesTexts == {<<>>, <<97>>, <<97, 98>>}

HeaderSize == 56    \* 4 (sig) + 32 (hmac) + 16 (iv) + 4 (datasize)
AesBlock == 16

\* variant of DecryptEncrypted whose header size leaves out the 4-byte data size
DecryptEncrypted_Header52(d) ==
    IF Len(d) < HeaderSize - 4 THEN {NoneVal}
    ELSE LET payload == Drop(d, HeaderSize) IN
         IF Len(payload) % AesBlock # 0 THEN {NoneVal}
         ELSE IF payload = <<>> THEN {Str(<<>>)}
         ELSE {Str(t) : t \in AesTexts}

\* SIIDecryptor._decrypt_encrypted: the set of values it can return
DecryptEncrypted(d) ==
    IF Len(d) < HeaderSize THEN {NoneVal}
    ELSE LET payload == Drop(d, HeaderSize) IN
         IF Len(payload) % AesBlock # 0 THEN {NoneVal}      \* cipher.decrypt raises ValueError
         ELSE IF payload = <<>> THEN {Str(<<>>)}            \* zlib.error on b"", then b"".decode
         ELSE {Str(t) : t \in AesTexts}

\* variant of DecryptFile that strips the signature before decoding a plaintext file
DecryptFile_StripSignature(d, canRead, crypto) ==
    IF ~crypto
    THEN IF canRead THEN {Str(TranslateNewlines(Utf8DecodeIgnore(d)))} ELSE {NoneVal}
    ELSE IF ~canRead THEN {NoneVal}
    ELSE IF d = <<>> \/ Len(d) < 4 THEN {NoneVal}
    ELSE LET signature == UnpackLE32(Take(d, 4)) IN
         IF signature = SII_SIGNATURE_NORMAL THEN {Str(Utf8DecodeIgnore(Drop(d, 4)))}
         ELSE IF signature = SII_SIGNATURE_ENCRYPTED THEN DecryptEncrypted(d)
         ELSE {NoneVal}

\* variant of DecryptFile that decodes a file of unknown signature as text
DecryptFile_UnknownAsText(d, canRead, crypto) ==
    IF ~crypto
    THEN IF canRead THEN {Str(TranslateNewlines(Utf8DecodeIgnore(d)))} ELSE {NoneVal}
    ELSE IF ~canRead THEN {NoneVal}
    ELSE IF d = <<>> \/ Len(d) < 4 THEN {NoneVal}
    ELSE LET signature == UnpackLE32(Take(d, 4)) IN
         IF signature = SII_SIGNATURE_NORMAL THEN {Str(Utf8DecodeIgnore(d))}
         ELSE IF signature = SII_SIGNATURE_ENCRYPTED THEN DecryptEncrypted(d)
         ELSE {Str(Utf8DecodeIgnore(d))}

\* SIIDecryptor.decrypt_file: the set of values it can return
DecryptFile(d, canRead, crypto) ==
    IF ~crypto
    THEN IF canRead THEN {Str(TranslateNewlines(Utf8DecodeIgnore(d)))} ELSE {NoneVal}
    ELSE IF ~canRead THEN {NoneVal}
    ELSE IF d = <<>> \/ Len(d) < 4 THEN {NoneVal}
    ELSE LET signature == UnpackLE32(Take(d, 4)) IN
         IF signature = SII_SIGNATURE_NORMAL THEN {Str(Utf8DecodeIgnore(d))}
         ELSE IF signature = SII_SIGNATURE_ENCRYPTED THEN DecryptEncrypted(d)
         ELSE {NoneVal}

\* ---- inputs of the decoder specification ----
MaxPad == 68        \* filler bytes between the signature and the tail
MaxTail == 2        \* free bytes at the end of the input

PlainSig == <<83, 105, 105, 78>>    \* "SiiN"
EncSig == <<83, 99, 115, 67>>       \* "ScsC"
OtherSig == <<83, 105, 105, 79>>    \* "SiiO"
Signatures == {PlainSig, EncSig, OtherSig}

\* 'a', CR, LF, a two-byte lead, a continuation byte, a never-valid byte
TailBytes == {97, 13, 10, 195, 169, 255}

Zeros(n) == [i \in 1..n |-> 0]

DecoderInputs ==
    {Take(s, n) : s \in Signatures, n \in 0..3}
    \cup {s \o Zeros(p) \o t : s \in Signatures, p \in 0..MaxPad,
                               t \in SeqsUpTo(TailBytes, MaxTail)}

InitDecoder ==
    /\ HAS_CRYPTO \in BOOLEAN
    /\ data \in DecoderInputs
    /\ readable \in BOOLEAN
    /\ dresult = NoneVal
    /\ dpc = "call"

IdleDecoder ==
    /\ HAS_CRYPTO = TRUE
    /\ data = <<>>
    /\ readable = TRUE
    /\ dresult = NoneVal
    /\ dpc = "idle"

decrypt_file ==
    /\ dpc = "call"
    /\ dresult' \in DecryptFile(data, readable, HAS_CRYPTO)
    /\ dpc' = "done"
    /\ UNCHANGED <<HAS_CRYPTO, data, readable, extVars, cacheVars, taskVars, scanVars, envVars, sideVars, replyVars, histVars>>

----------------------------------------------------------------------------
(* Properties of the decoder (SpecDecoder) *)

Range(s) == {s[i] : i \in 1..Len(s)}

StartsWith(s, p) == Len(s) >= Len(p) /\ SubSeq(s, 1, Len(p)) = p

\* bytes.decode("utf-8", errors="replace") on the same byte sequences: an
\* invalid byte becomes U+FFFD
RECURSIVE Utf8DecodeReplace(_)
Utf8DecodeReplace(b) ==
    IF b = <<>> THEN <<>>
    ELSE IF b[1] < 128 THEN <<b[1]>> \o Utf8DecodeReplace(Tail(b))
    ELSE IF b[1] >= 194 /\ b[1] <= 223 /\ Len(b) >= 2 /\ IsContinuation(b[2])
         THEN <<(b[1] - 192) * 64 + (b[2] - 128)>> \o Utf8DecodeReplace(Drop(b, 2))
    ELSE <<65533>> \o Utf8DecodeReplace(Tail(b))

PlainInput == readable /\ StartsWith(data, PlainSig)
ShortEncryptedInput == readable /\ StartsWith(data, EncSig) /\ Len(data) < HeaderSize
UnknownSignature == Len(data) >= 4 /\ ~StartsWith(data, PlainSig) /\ ~StartsWith(data, EncSig)
DecryptionFailure ==
    StartsWith(data, EncSig) /\ (Len(data) < HeaderSize \/ (Len(data) - HeaderSize) % AesBlock # 0)

C5_ShortEncryptedIsNone ==
    (dpc = "done" /\ ShortEncryptedInput) => dresult = NoneVal

\* C5 (amended): with the decryption library available, every input that
\* starts with the encrypted signature and is shorter than the 56-byte header
\* makes decrypt_file return None; without the library the file is returned
\* as text.
C5_ShortEncryptedIsNoneWithCrypto ==
    (dpc = "done" /\ ShortEncryptedInput) =>
        /\ HAS_CRYPTO => dresult = NoneVal
        /\ ~HAS_CRYPTO => ~dresult.isNone

C5_Witness ==
    dpc = "done" /\ ShortEncryptedInput /\ HAS_CRYPTO /\ Len(data) = HeaderSize - 1
    /\ dresult = NoneVal

\* C6 (as stated): decrypt_file returns None for an input shorter than 4
\* bytes, an input of unknown signature, an unreadable file and a decryption
\* failure.
C6_FailuresAreNone ==
    (dpc = "done" /\ (Len(data) < 4 \/ UnknownSignature \/ ~readable \/ DecryptionFailure))
        => dresult = NoneVal

\* C6 (amended): decrypt_file always returns a value; with the decryption
\* library available it returns None for an input shorter than 4 bytes, an
\* unknown signature, an unreadable file and a decryption failure; without
\* the library it returns None exactly for an unreadable file.
C6_FailuresAreNoneWithCrypto ==
    dpc = "done" =>
        /\ dresult.isNone \in BOOLEAN
        /\ (HAS_CRYPTO /\ (Len(data) < 4 \/ UnknownSignature \/ ~readable \/ DecryptionFailure))
              => dresult = NoneVal
        /\ ~HAS_CRYPTO => (dresult.isNone <=> ~readable)

C6_Witness ==
    dpc = "done" /\ HAS_CRYPTO /\ readable /\ UnknownSignature /\ dresult = NoneVal

----------------------------------------------------------------------------
(* src/lib/parser.py: _extract_mods_from_content *)

\* str.strip(): leading and trailing whitespace removed (space, \t, \n, \r)
IsSpace(c) == c \in {32, 9, 10, 13}

RECURSIVE LStrip(_)
LStrip(s) == IF s # <<>> /\ IsSpace(s[1]) THEN LStrip(Tail(s)) ELSE s

RECURSIVE RStrip(_)
RStrip(s) == IF s # <<>> /\ IsSpace(s[Len(s)]) THEN RStrip(SubSeq(s, 1, Len(s) - 1)) ELSE s

Strip(s) == RStrip(LStrip(s))

IsDigit(c) == c >= 48 /\ c <= 57

\* int(s) for a string of decimal digits (what the regex group (\d+) captures)
RECURSIVE IntOfDigits(_)
IntOfDigits(s) ==
    IF s = <<>> THEN 0 ELSE 10 * IntOfDigits(SubSeq(s, 1, Len(s) - 1)) + (s[Len(s)] - 48)

\* place m in a list already sorted by int(index) descending, behind every
\* element whose key is not smaller (sorted() is stable, also with reverse=True)
RECURSIVE InsertDesc(_, _)
InsertDesc(sorted, m) ==
    IF sorted = <<>> THEN <<m>>
    ELSE IF IntOfDigits(sorted[1].index) >= IntOfDigits(m.index)
         THEN <<sorted[1]>> \o InsertDesc(Tail(sorted), m)
    ELSE <<m>> \o sorted

\* variant of SortedDesc that keeps the document order
SortedDesc_DocumentOrder(ms) == ms

\* sorted(matches, key=lambda x: int(x[0]), reverse=True)
RECURSIVE SortedDesc(_)
SortedDesc(ms) ==
    IF ms = <<>> THEN <<>>
    ELSE InsertDesc(SortedDesc(SubSeq(ms, 1, Len(ms) - 1)), ms[Len(ms)])

ModInfo(display_name, filename, load_order, source) ==
    [display_name |-> display_name, filename |-> filename,
     load_order |-> load_order, source |-> source]

\* the loop of _extract_mods_from_content over the sorted matches
RECURSIVE KeepNamed(_)
KeepNamed(sm) ==
    IF sm = <<>> THEN <<>>
    ELSE LET clean_name == Strip(sm[1].display_name) IN
         (IF clean_name # <<>> /\ Len(clean_name) > 1
          THEN <<ModInfo(clean_name, sm[1].mod_id, IntOfDigits(sm[1].index), "profile")>>
          ELSE <<>>) \o KeepNamed(Tail(sm))

\* ModParser._extract_mods_from_content, applied to the regex matches of the content
ExtractMods(ms) == IF ms = <<>> THEN <<>> ELSE KeepNamed(SortedDesc(ms))

\* ---- inputs of the extractor specification ----
MaxMatches == 3

IndexTexts == {<<48>>, <<49>>, <<48, 50>>}                      \* "0", "1", "02"
ModIds == {<<109>>, <<110>>}                                    \* "m", "n"
NameTexts == {<<32>>, <<97>>, <<32, 97, 98, 32>>, <<97, 98, 99>>}  \* " ", "a", " ab ", "abc"

MatchTuples == [index : IndexTexts, mod_id : ModIds, display_name : NameTexts]

InitExtractor ==
    /\ matches \in SeqsUpTo(MatchTuples, MaxMatches)
    /\ mods = <<>>
    /\ xpc = "call"

IdleExtractor ==
    /\ matches = <<>>
    /\ mods = <<>>
    /\ xpc = "idle"

extract_mods_from_content ==
    /\ xpc = "call"
    /\ mods' = ExtractMods(matches)
    /\ xpc' = "done"
    /\ UNCHANGED <<matches, decVars, cacheVars, taskVars, scanVars, envVars, sideVars, replyVars, histVars>>

----------------------------------------------------------------------------
(* Properties of the extractor (SpecExtractor) *)

\* C2 (as stated): every entry whose trimmed display name is empty or has
\* length <= 2 is dropped, every entry whose trimmed name has length >= 3 is kept.
C2_DropsNamesUpToTwo ==
    xpc = "done" =>
        /\ \A i \in 1..Len(mods) : Len(mods[i].display_name) >= 3
        /\ \A j \in 1..Len(matches) :
              Len(Strip(matches[j].display_name)) >= 3 =>
                 \E i \in 1..Len(mods) :
                    /\ mods[i].display_name = Strip(matches[j].display_name)
                    /\ mods[i].filename = matches[j].mod_id
                    /\ mods[i].load_order = IntOfDigits(matches[j].index)

SameEntry(m, mod) ==
    /\ mod.display_name = Strip(m.display_name)
    /\ mod.filename = m.mod_id
    /\ mod.load_order = IntOfDigits(m.index)
    /\ mod.source = "profile"

\* C3: whatever the input order, the returned records are sorted by numeric
\* index descending, each record's load_order is the index of the entry it
\* was built from (not its rank in the output), and the records are exactly
\* the surviving entries.
C3_SortedByIndexDescending ==
    xpc = "done" =>
        /\ \A i \in 1..Len(mods) : \A j \in 1..Len(mods) :
              i < j => mods[i].load_order >= mods[j].load_order
        /\ \A i \in 1..Len(mods) : \E j \in 1..Len(matches) : SameEntry(matches[j], mods[i])
        /\ \A j \in 1..Len(matches) :
              Len(Strip(matches[j].display_name)) > 1 =>
                 Cardinality({i \in 1..Len(mods) : SameEntry(matches[j], mods[i])})
                    = Cardinality({k \in 1..Len(matches) :
                         /\ Strip(matches[k].display_name) = Strip(matches[j].display_name)
                         /\ matches[k].mod_id = matches[j].mod_id
                         /\ IntOfDigits(matches[k].index) = IntOfDigits(matches[j].index)})

C3_Witness ==
    /\ xpc = "done"
    /\ Len(mods) = 3
    /\ IntOfDigits(matches[1].index) < IntOfDigits(matches[2].index)
    /\ IntOfDigits(matches[3].index) < IntOfDigits(matches[2].index)
    /\ mods[1].load_order = 2 /\ mods[2].load_order = 1 /\ mods[3].load_order = 0

----------------------------------------------------------------------------
(* src/lib/cache.py: ModCache *)

Tasks == {1, 2}

IsSurrogate(cp) == cp >= 55296 /\ cp <= 57343

\* str.encode("utf-8") fails on a lone surrogate
Encodable(t) == \A i \in 1..Len(t) : ~IsSurrogate(t[i])

\* str.encode("utf-8") of an encodable text of code points below 0x800
RECURSIVE Utf8Encode(_)
Utf8Encode(t) ==
    IF t = <<>> THEN <<>>
    ELSE IF t[1] < 128 THEN <<t[1]>> \o Utf8Encode(Tail(t))
    ELSE <<192 + (t[1] \div 64), 128 + (t[1] % 64)>> \o Utf8Encode(Tail(t))

\* a byte sequence that a strict UTF-8 decoder accepts
Utf8Valid(b) == Utf8Encode(Utf8DecodeIgnore(b)) = b

NoFile == [exists |-> FALSE, doc |-> <<>>]

\* the file right after open(..., "w"): it exists and holds nothing
TruncatedFile == [exists |-> TRUE, doc |-> <<>>]

\* every key and value of the mapping survives the UTF-8 encoding of the file
AllEncodable(c) == \A k \in DOMAIN c : Encodable(k) /\ Encodable(c[k])

\* json.dumps(self._cache, ensure_ascii=False) as written to the UTF-8 file:
\* the JSON object, as a mapping from the bytes of each key to the bytes of
\* its value
Serialize(c) ==
    [kb \in {Utf8Encode(k) : k \in DOMAIN c} |->
        Utf8Encode(c[CHOOSE k \in DOMAIN c : Utf8Encode(k) = kb])]

\* json.loads of the file read as UTF-8 text; an empty file gives {} and a
\* file that does not decode gives {} through the except branch of load()
Parse(doc) ==
    IF \E kb \in DOMAIN doc : ~Utf8Valid(kb) \/ ~Utf8Valid(doc[kb]) THEN <<>>
    ELSE [k \in {Utf8DecodeIgnore(kb) : kb \in DOMAIN doc} |->
             Utf8DecodeIgnore(doc[CHOOSE kb \in DOMAIN doc : Utf8DecodeIgnore(kb) = k])]

\* ModCache.load on a fresh instance (self._cache = {}): the mapping it leaves
Load(f) == IF ~f.exists THEN <<>> ELSE Parse(f.doc)

\* dict.get(key): None when the key is missing
CacheGet(c, k) == IF k \in DOMAIN c THEN Str(c[k]) ELSE NoneVal

\* variant of CacheSet that keeps the value of a key already present
CacheSet_KeepExisting(c, k, v) ==
    [x \in DOMAIN c \cup {k} |-> IF x \in DOMAIN c THEN c[x] ELSE v]

\* self._cache[key] = value
CacheSet(c, k, v) == [x \in DOMAIN c \cup {k} |-> IF x = k THEN v ELSE c[x]]

\* variant of Unlink that leaves the file in place
Unlink_KeepFile(f) == f

\* if self.cache_file.exists(): self.cache_file.unlink()
Unlink(f) == IF f.exists THEN NoFile ELSE f

NoOp == [op |-> "none", key |-> <<>>, result |-> NoneVal, held |-> 0]
NoSet == [valid |-> FALSE, key |-> <<>>, val |-> <<>>, encodable |-> FALSE, reloaded |-> FALSE]

\* no resolution in flight, no entry written
NoProv == [stale |-> [t \in Tasks |-> FALSE], tainted |-> {}]

\* a clear empties the cache; the resolutions that have looked up the cache
\* and not yet called cache.set began before it
ClearProv == [stale |-> [t \in Tasks |-> pc[t] \in {"steam", "set"}], tainted |-> {}]

\* ModCache.__init__ over a backing file f
InitCache(f) ==
    /\ cache = <<>>
    /\ file = f
    /\ lock = 0
    /\ lastOp = NoOp
    /\ lastSet = NoSet
    /\ bootStore = Load(f)
    /\ prov = NoProv
    /\ resolved = <<>>

NotReturned == [done |-> FALSE, mods |-> <<>>]

InitTasks ==
    /\ pc = [t \in Tasks |-> "idle"]
    /\ key = [t \in Tasks |-> <<>>]
    /\ val = [t \in Tasks |-> <<>>]
    /\ cmd = [t \in Tasks |-> "none"]
    /\ idx = [t \in Tasks |-> 0]
    /\ out = [t \in Tasks |-> <<>>]
    /\ ret = [t \in Tasks |-> NotReturned]
    /\ missed = [t \in Tasks |-> FALSE]
    /\ user = [t \in Tasks |-> "none"]
    /\ reply = [t \in Tasks |-> "none"]
    /\ dlc = [t \in Tasks |-> FALSE]

\* no profile directory, no mod archive
IdleEnv ==
    /\ profiles = <<>>
    /\ modFolder = <<>>

\* ModCache.get: the lock is taken, the dict is read, the lock is released,
\* with no suspension in between once the lock is free
get(t, k) ==
    /\ pc[t] = "idle"
    /\ lock = 0
    /\ lastOp' = [op |-> "get", key |-> k, result |-> CacheGet(cache, k),
                  held |-> Cardinality(DOMAIN cache)]
    /\ UNCHANGED <<cache, file, lock, lastSet, taskVars, pureVars, scanVars, envVars, sideVars, replyVars, histVars>>

\* cache.set of task t writes its entry: the entry is tainted when a clear ran
\* since the resolution began
Written(t) ==
    [prov EXCEPT !.tainted = IF prov.stale[t] THEN @ \cup {key[t]} ELSE @ \ {key[t]}]

\* variant of set_begin that does not take the lock
set_begin_NoLock(t) ==
    /\ pc[t] = "set"
    /\ cache' = CacheSet(cache, key[t], val[t])
    /\ lastOp' = [op |-> "set_begin", key |-> key[t], result |-> NoneVal,
                  held |-> Cardinality(DOMAIN cache)]
    /\ pc' = [pc EXCEPT ![t] = "save_open"]
    /\ prov' = Written(t)
    /\ UNCHANGED <<file, lock, lastSet, key, val, pureVars, scanVars, envVars, sideVars, replyVars,
                   bootStore, resolved>>

\* ModCache.set up to its first suspension: lock taken, dict updated, save() entered
set_begin(t) ==
    /\ pc[t] = "set"
    /\ lock = 0
    /\ lock' = t
    /\ cache' = CacheSet(cache, key[t], val[t])
    /\ lastOp' = [op |-> "set_begin", key |-> key[t], result |-> NoneVal,
                  held |-> Cardinality(DOMAIN cache)]
    /\ pc' = [pc EXCEPT ![t] = "save_open"]
    /\ prov' = Written(t)
    /\ UNCHANGED <<file, lastSet, key, val, pureVars, scanVars, envVars, sideVars, replyVars,
                   bootStore, resolved>>

\* ModCache.save: aiofiles.open(self.cache_file, "w") creates or truncates the file
save_open(t) ==
    /\ pc[t] = "save_open"
    /\ file' = TruncatedFile
    /\ pc' = [pc EXCEPT ![t] = "save_write"]
    /\ UNCHANGED <<cache, lock, lastOp, lastSet, key, val, pureVars, scanVars, envVars, sideVars, replyVars, histVars>>

\* variant of save_write that leaves the opened file empty
save_write_Skip(t) ==
    /\ pc[t] = "save_write"
    /\ pc' = [pc EXCEPT ![t] = "save_close"]
    /\ UNCHANGED <<cache, file, lock, lastOp, lastSet, key, val, pureVars, scanVars, envVars, sideVars, replyVars, histVars>>

\* ModCache.save: f.write(json.dumps(self._cache, ...)); a text that cannot be
\* encoded raises, the error is logged and nothing is written
save_write(t) ==
    /\ pc[t] = "save_write"
    /\ file' = IF AllEncodable(cache) THEN [exists |-> TRUE, doc |-> Serialize(cache)] ELSE file
    /\ pc' = [pc EXCEPT ![t] = "save_close"]
    /\ UNCHANGED <<cache, lock, lastOp, lastSet, key, val, pureVars, scanVars, envVars, sideVars, replyVars, histVars>>

\* ModCache.set: save() has returned, the lock is released
set_end(t) ==
    /\ pc[t] = "save_close"
    /\ lock' = 0
    /\ lastOp' = [op |-> "set", key |-> key[t], result |-> NoneVal,
                  held |-> Cardinality(DOMAIN cache)]
    /\ lastSet' = [valid |-> TRUE, key |-> key[t], val |-> val[t],
                   encodable |-> AllEncodable(cache), reloaded |-> FALSE]
    /\ pc' = [pc EXCEPT ![t] = "set_done"]
    /\ UNCHANGED <<cache, file, key, val, pureVars, scanVars, envVars, sideVars, replyVars, histVars>>

\* ModCache.clear: under the lock the dict is emptied and the file removed
clear(t) ==
    /\ pc[t] = "idle"
    /\ lock = 0
    /\ cache' = <<>>
    /\ file' = Unlink(file)
    /\ lastOp' = [op |-> "clear", key |-> <<>>, result |-> NoneVal,
                  held |-> Cardinality(DOMAIN cache)]
    /\ lastSet' = NoSet
    /\ bootStore' = <<>>
    /\ resolved' = <<>>
    /\ prov' = ClearProv
    /\ UNCHANGED <<lock, taskVars, pureVars, scanVars, envVars, sideVars, replyVars>>

\* ---- the cache used directly by one caller (as the tests do) ----
CacheKeys == {<<97>>, <<56448>>}                \* "a", a lone surrogate
CacheValues == {<<65>>, <<233>>, <<56448>>}     \* "A", "e-acute", a lone surrogate

\* the caller invokes set(k, v)
call_set(t, k, v) ==
    /\ pc[t] = "idle"
    /\ pc' = [pc EXCEPT ![t] = "set"]
    /\ key' = [key EXCEPT ![t] = k]
    /\ val' = [val EXCEPT ![t] = v]
    /\ cmd' = [cmd EXCEPT ![t] = "set"]
    /\ UNCHANGED <<cacheVars, pureVars, idx, out, ret, missed, envVars, sideVars, replyVars, histVars>>

\* set() has returned to the caller
return_set(t) ==
    /\ pc[t] = "set_done"
    /\ cmd[t] = "set"
    /\ pc' = [pc EXCEPT ![t] = "idle"]
    /\ cmd' = [cmd EXCEPT ![t] = "none"]
    /\ UNCHANGED <<cacheVars, key, val, pureVars, idx, out, ret, missed, envVars, sideVars, replyVars, histVars>>

\* process restart: a new ModCache over the same backing file, then load()
new_instance_load ==
    /\ \A t \in Tasks : pc[t] = "idle"
    /\ cache' = Load(file)
    /\ lock' = 0
    /\ lastOp' = [op |-> "load", key |-> <<>>, result |-> NoneVal,
                  held |-> Cardinality(DOMAIN cache)]
    /\ lastSet' = [lastSet EXCEPT !.reloaded = TRUE]
    /\ bootStore' = Load(file)
    /\ resolved' = <<>>
    /\ prov' = NoProv
    /\ UNCHANGED <<file, taskVars, pureVars, scanVars, envVars, sideVars, replyVars>>

\* the bot process ends and is started again: ETS2ModBot.__init__ builds a
\* new ModCache over the same backing file and a new CooldownManager, and
\* nothing calls load()
restart ==
    /\ \A t \in Tasks : pc[t] = "idle"
    /\ cache' = <<>>
    /\ lock' = 0
    /\ lastOp' = [op |-> "init", key |-> <<>>, result |-> NoneVal,
                  held |-> Cardinality(DOMAIN cache)]
    /\ lastSet' = NoSet
    /\ bootStore' = Load(file)
    /\ resolved' = <<>>
    /\ prov' = NoProv
    /\ user_cooldowns' = <<>>
    /\ global_cooldowns' = <<>>
    /\ lastCheck' = [lastCheck EXCEPT !.valid = FALSE]
    /\ acceptedAt' = [x \in DOMAIN acceptedAt |-> -1]
    /\ UNCHANGED <<file, now, taskVars, pureVars, scanVars, envVars, replyVars, instVars, resVars, chunkVars, countVars>>

IdleCache == InitCache(NoFile) /\ InitTasks /\ IdleEnv

----------------------------------------------------------------------------
(* src/lib/parser.py: _clean_filename *)

IsUpper(c) == c >= 65 /\ c <= 90
IsLower(c) == c >= 97 /\ c <= 122
IsLetter(c) == IsUpper(c) \/ IsLower(c)

LowerChar(c) == IF IsUpper(c) THEN c + 32 ELSE c
UpperChar(c) == IF IsLower(c) THEN c - 32 ELSE c

\* str.lower(), str.upper()
Lower(s) == [i \in 1..Len(s) |-> LowerChar(s[i])]
Upper(s) == [i \in 1..Len(s) |-> UpperChar(s[i])]

\* str.title(): a letter that follows a letter is lowered, any other letter is raised
Title(s) ==
    [i \in 1..Len(s) |->
        IF i > 1 /\ IsLetter(s[i - 1]) THEN LowerChar(s[i]) ELSE UpperChar(s[i])]

\* str.replace(a, b) for single characters
ReplaceChar(s, a, b) == [i \in 1..Len(s) |-> IF s[i] = a THEN b ELSE s[i]]

\* s with every occurrence of character a removed
RemoveChar(s, a) == SelectSeq(s, LAMBDA c : c # a)

\* position of the last occurrence of character a in s, 0 when there is none
LastIndexOf(s, a) ==
    IF \E i \in 1..Len(s) : s[i] = a
    THEN CHOOSE i \in 1..Len(s) : s[i] = a /\ \A j \in (i + 1)..Len(s) : s[j] # a
    ELSE 0

\* position of the first occurrence of character a in s, 0 when there is none
FirstIndexOf(s, a) ==
    IF \E i \in 1..Len(s) : s[i] = a
    THEN CHOOSE i \in 1..Len(s) : s[i] = a /\ \A j \in 1..(i - 1) : s[j] # a
    ELSE 0

\* Path(filename).stem: the name without its last suffix
Stem(name) ==
    LET dot == LastIndexOf(name, 46) IN
    IF dot > 1 /\ dot < Len(name) THEN SubSeq(name, 1, dot - 1) ELSE name

\* str.split(): the maximal runs of non-whitespace characters
RECURSIVE Words(_)
Words(s) ==
    LET t == LStrip(s) IN
    IF t = <<>> THEN <<>>
    ELSE LET stop == IF \E i \in 1..Len(t) : IsSpace(t[i])
                     THEN CHOOSE i \in 1..Len(t) :
                              IsSpace(t[i]) /\ \A j \in 1..(i - 1) : ~IsSpace(t[j])
                     ELSE Len(t) + 1
         IN  <<SubSeq(t, 1, stop - 1)>> \o Words(SubSeq(t, stop, Len(t)))

\* " ".join(words)
RECURSIVE JoinWords(_)
JoinWords(ws) ==
    IF ws = <<>> THEN <<>>
    ELSE IF Len(ws) = 1 THEN ws[1]
    ELSE ws[1] \o <<32>> \o JoinWords(Tail(ws))

\* "v", "by", "for", "and", "the", "of", "to", "in", "on", "at"
FunctionWords ==
    {<<118>>, <<98, 121>>, <<102, 111, 114>>, <<97, 110, 100>>, <<116, 104, 101>>,
     <<111, 102>>, <<116, 111>>, <<105, 110>>, <<111, 110>>, <<97, 116>>}

ProModsPrefix == <<112, 114, 111, 109, 111, 100, 115>>     \* "promods"
ProModsLabel == <<80, 114, 111, 77, 111, 100, 115, 32>>    \* "ProMods "

\* str.isdigit() of a string of the characters used here
AllDigits(s) == s # <<>> /\ \A i \in 1..Len(s) : IsDigit(s[i])

\* the branch of _clean_filename for a token that starts with "promods"
CleanProMods(word) ==
    LET v1 == FirstIndexOf(word, 118) IN
    IF 118 \in {Lower(word)[i] : i \in 1..Len(word)} /\ v1 > 0
    THEN LET before == SubSeq(word, 1, v1 - 1)
             rest == SubSeq(word, v1 + 1, Len(word))
             v2 == FirstIndexOf(rest, 118)
             part1 == IF v2 = 0 THEN rest ELSE SubSeq(rest, 1, v2 - 1)
         IN  ProModsLabel \o Title(Drop(before, 7)) \o <<32, 86>> \o part1
    ELSE Title(word)

\* one token of _clean_filename
CleanWord(word) ==
    IF Lower(word) \in FunctionWords THEN Lower(word)
    ELSE IF word[1] = 118 /\ Len(word) > 1
            /\ AllDigits(RemoveChar(RemoveChar(Tail(word), 46), 95))
         THEN Upper(word)
    ELSE IF Len(word) >= 7 /\ SubSeq(Lower(word), 1, 7) = ProModsPrefix THEN CleanProMods(word)
    ELSE Title(word)

\* ModParser._clean_filename
CleanFilename(filename) ==
    LET name == ReplaceChar(ReplaceChar(Stem(filename), 95, 32), 45, 32)
        words == Words(name)
    IN  JoinWords([i \in 1..Len(words) |-> CleanWord(words[i])])

----------------------------------------------------------------------------
(* src/lib/parser.py: profile discovery and get_active_mods *)

\* A profile directory is [hasSii, timestamp, decoded, countTexts, matches]:
\* whether profile.sii exists, its st_mtime, whether decrypt_file returns a
\* non-empty text, the texts that follow "active_mods:" on the lines that
\* contain it, and the regex matches of the text.

\* int(text.strip()) succeeds
IsIntText(t) == AllDigits(Strip(t))

\* variant of ParseCount in which the first matching line decides alone
ParseCount_FirstLineOnly(texts) ==
    IF texts = <<>> THEN 0
    ELSE IF IsIntText(texts[1]) THEN IntOfDigits(Strip(texts[1]))
    ELSE 0

\* the count heuristic of _analyze_profile: the first line whose value
\* parses decides, a line that does not parse is skipped
RECURSIVE ParseCount(_)
ParseCount(texts) ==
    IF texts = <<>> THEN 0
    ELSE IF IsIntText(texts[1]) THEN IntOfDigits(Strip(texts[1]))
    ELSE ParseCount(Tail(texts))

ProfileInfo(path, mods_count, timestamp) ==
    [path |-> path, mods_count |-> mods_count, timestamp |-> timestamp]

\* ModParser._find_profiles with _analyze_profile: one ProfileInfo per
\* directory that holds a profile.sii, in iteration order
RECURSIVE FindProfilesFrom(_, _)
FindProfilesFrom(dirs, i) ==
    IF i > Len(dirs) THEN <<>>
    ELSE (IF dirs[i].hasSii
          THEN <<ProfileInfo(i, IF dirs[i].decoded THEN ParseCount(dirs[i].countTexts) ELSE 0,
                             dirs[i].timestamp)>>
          ELSE <<>>) \o FindProfilesFrom(dirs, i + 1)

\* variant of FindProfiles that drops the candidates whose file was not decoded
FindProfiles_SkipUndecoded(dirs) ==
    SelectSeq(FindProfilesFrom(dirs, 1), LAMBDA p : dirs[p.path].decoded)

FindProfiles(dirs) == FindProfilesFrom(dirs, 1)

\* variant of MaxByTimestamp that prefers a candidate with a nonzero count
MaxByTimestamp_PreferNonEmpty(ps) ==
    LET pool == IF \E j \in 1..Len(ps) : ps[j].mods_count # 0
                THEN {j \in 1..Len(ps) : ps[j].mods_count # 0} ELSE 1..Len(ps)
    IN  ps[CHOOSE i \in pool :
               /\ \A j \in pool : ps[j].timestamp <= ps[i].timestamp
               /\ \A j \in pool : j < i => ps[j].timestamp < ps[i].timestamp]

\* max(profiles, key=lambda p: p.timestamp): the first maximal element
MaxByTimestamp(ps) ==
    ps[CHOOSE i \in 1..Len(ps) :
           /\ \A j \in 1..Len(ps) : ps[j].timestamp <= ps[i].timestamp
           /\ \A j \in 1..(i - 1) : ps[j].timestamp < ps[i].timestamp]

\* ModParser._parse_from_profile
ParseFromProfile(dirs) ==
    LET found == FindProfiles(dirs) IN
    IF found = <<>> THEN <<>>
    ELSE LET latest_profile == MaxByTimestamp(found) IN
         IF latest_profile.mods_count = 0 THEN <<>>
         ELSE IF ~dirs[latest_profile.path].decoded THEN <<>>
         ELSE ExtractMods(dirs[latest_profile.path].matches)

\* lexicographic order of two texts (the order of list.sort() on paths of one folder)
RECURSIVE TextLess(_, _)
TextLess(a, b) ==
    IF b = <<>> THEN FALSE
    ELSE IF a = <<>> THEN TRUE
    ELSE IF a[1] # b[1] THEN a[1] < b[1]
    ELSE TextLess(Tail(a), Tail(b))

\* scs_files after scs_files.sort()
RECURSIVE SortedTexts(_)
SortedTexts(S) ==
    IF S = {} THEN <<>>
    ELSE LET least == CHOOSE x \in S : \A y \in S \ {x} : TextLess(x, y)
         IN  <<least>> \o SortedTexts(S \ {least})

ScsFiles == SortedTexts(DOMAIN modFolder)

\* a value that `if cached:` / `if name:` accepts
Truthy(r) == ~r.isNone /\ r.text # <<>>

\* what the Steam Workshop search can answer: a title, or nothing (timeout,
\* network error, no match)
SteamTitle == <<84>>                        \* "T"
SteamAnswers == {NoneVal, Str(SteamTitle)}

\* the command starts: get_active_mods is entered
start_mods(t) ==
    /\ pc[t] = "idle"
    /\ pc' = [pc EXCEPT ![t] = "parse_profile"]
    /\ cmd' = [cmd EXCEPT ![t] = "mods"]
    /\ idx' = [idx EXCEPT ![t] = 0]
    /\ out' = [out EXCEPT ![t] = <<>>]
    /\ ret' = [ret EXCEPT ![t] = NotReturned]
    /\ reply' = [reply EXCEPT ![t] = "none"]
    /\ dlc' = [dlc EXCEPT ![t] = FALSE]
    /\ UNCHANGED <<cacheVars, key, val, missed, envVars, pureVars, sideVars, user, histVars>>

\* refresh_mods_command up to get_active_mods: the cache is cleared first
start_refresh(t) ==
    /\ pc[t] = "idle"
    /\ lock = 0
    /\ cache' = <<>>
    /\ file' = Unlink(file)
    /\ lastOp' = [op |-> "clear", key |-> <<>>, result |-> NoneVal,
                  held |-> Cardinality(DOMAIN cache)]
    /\ lastSet' = NoSet
    /\ pc' = [pc EXCEPT ![t] = "parse_profile"]
    /\ cmd' = [cmd EXCEPT ![t] = "refreshmods"]
    /\ idx' = [idx EXCEPT ![t] = 0]
    /\ out' = [out EXCEPT ![t] = <<>>]
    /\ ret' = [ret EXCEPT ![t] = NotReturned]
    /\ reply' = [reply EXCEPT ![t] = "none"]
    /\ dlc' = [dlc EXCEPT ![t] = FALSE]
    /\ bootStore' = <<>>
    /\ resolved' = <<>>
    /\ prov' = ClearProv
    /\ UNCHANGED <<lock, key, val, missed, envVars, pureVars, sideVars, user>>

\* variant of profile_found that goes on to scan the mod folder
profile_found_ThenScan(t) ==
    /\ pc[t] = "parse_profile"
    /\ ParseFromProfile(profiles) # <<>>
    /\ out' = [out EXCEPT ![t] = ParseFromProfile(profiles)]
    /\ pc' = [pc EXCEPT ![t] = "resolve"]
    /\ UNCHANGED <<cacheVars, key, val, cmd, idx, ret, missed, envVars, pureVars, sideVars, replyVars, histVars>>

\* get_active_mods: the profile path gave records, they are returned
profile_found(t) ==
    /\ pc[t] = "parse_profile"
    /\ ParseFromProfile(profiles) # <<>>
    /\ ret' = [ret EXCEPT ![t] = [done |-> TRUE, mods |-> ParseFromProfile(profiles)]]
    /\ pc' = [pc EXCEPT ![t] = "done"]
    /\ UNCHANGED <<cacheVars, key, val, cmd, idx, out, missed, envVars, pureVars, sideVars, replyVars, histVars>>

\* variant of profile_empty that enters the folder scan whatever the profile gave
profile_empty_Always(t) ==
    /\ pc[t] = "parse_profile"
    /\ pc' = [pc EXCEPT ![t] = "resolve"]
    /\ UNCHANGED <<cacheVars, key, val, scanVars, envVars, pureVars, sideVars, replyVars, histVars>>

\* get_active_mods: the profile path gave nothing, _parse_from_folder is entered
profile_empty(t) ==
    /\ pc[t] = "parse_profile"
    /\ ParseFromProfile(profiles) = <<>>
    /\ pc' = [pc EXCEPT ![t] = "resolve"]
    /\ UNCHANGED <<cacheVars, key, val, scanVars, envVars, pureVars, sideVars, replyVars, histVars>>

\* _parse_from_folder: every archive is handled, the list is returned
scan_done(t) ==
    /\ pc[t] = "resolve"
    /\ idx[t] = Len(ScsFiles)
    /\ ret' = [ret EXCEPT ![t] = [done |-> TRUE, mods |-> out[t]]]
    /\ pc' = [pc EXCEPT ![t] = "done"]
    /\ UNCHANGED <<cacheVars, key, val, cmd, idx, out, missed, envVars, pureVars, sideVars, replyVars, histVars>>

\* the record _parse_from_folder appends for the archive at position idx[t]
FolderMod(t, name) == ModInfo(name, ScsFiles[idx[t] + 1], idx[t], "folder")

\* _get_mod_display_name from its start to its first suspension: the cache
\* lookup, then on a miss the manifest (read without suspension), then either
\* the start of cache.set (manifest name) or the Steam request
resolve_start(t) ==
    /\ pc[t] = "resolve"
    /\ idx[t] < Len(ScsFiles)
    /\ lock = 0
    /\ LET k == ScsFiles[idx[t] + 1]
           cached == CacheGet(cache, k)
           held == Cardinality(DOMAIN cache)
       IN  /\ key' = [key EXCEPT ![t] = k]
           /\ IF Truthy(cached)
              THEN /\ out' = [out EXCEPT ![t] = Append(@, FolderMod(t, cached.text))]
                   /\ idx' = [idx EXCEPT ![t] = @ + 1]
                   /\ lastOp' = [op |-> "get", key |-> k, result |-> cached, held |-> held]
                   /\ missed' = [missed EXCEPT ![t] = FALSE]
                   /\ resolved' = DictSet(resolved, k, cached.text)
                   /\ UNCHANGED <<cache, lock, pc, val>>
              ELSE IF Truthy(modFolder[k])
              THEN /\ val' = [val EXCEPT ![t] = modFolder[k].text]
                   /\ cache' = CacheSet(cache, k, modFolder[k].text)
                   /\ lock' = t
                   /\ lastOp' = [op |-> "set_begin", key |-> k, result |-> NoneVal, held |-> held]
                   /\ missed' = [missed EXCEPT ![t] = TRUE]
                   /\ pc' = [pc EXCEPT ![t] = "save_open"]
                   /\ UNCHANGED <<out, idx, resolved>>
              ELSE /\ lastOp' = [op |-> "get", key |-> k, result |-> cached, held |-> held]
                   /\ missed' = [missed EXCEPT ![t] = TRUE]
                   /\ pc' = [pc EXCEPT ![t] = "steam"]
                   /\ UNCHANGED <<cache, lock, val, out, idx, resolved>>
    /\ prov' = [stale |-> [prov.stale EXCEPT ![t] = FALSE],
                tainted |-> IF cache' # cache THEN prov.tainted \ {key'[t]} ELSE prov.tainted]
    /\ UNCHANGED <<file, lastSet, cmd, ret, envVars, pureVars, sideVars, replyVars, bootStore>>

\* _lookup_steam_workshop answers; without a title the cleaned filename is
\* the name; cache.set is called with the name
steam_answer(t) ==
    /\ pc[t] = "steam"
    /\ \E answer \in SteamAnswers :
          val' = [val EXCEPT ![t] = IF Truthy(answer) THEN answer.text
                                    ELSE CleanFilename(key[t])]
    /\ pc' = [pc EXCEPT ![t] = "set"]
    /\ UNCHANGED <<cacheVars, key, scanVars, envVars, pureVars, sideVars, replyVars, histVars>>

\* cache.set has returned: _get_mod_display_name returns the name and
\* _parse_from_folder appends the record
resolve_return(t) ==
    /\ pc[t] = "set_done"
    /\ cmd[t] \in {"mods", "refreshmods"}
    /\ out' = [out EXCEPT ![t] = Append(@, FolderMod(t, val[t]))]
    /\ idx' = [idx EXCEPT ![t] = @ + 1]
    /\ missed' = [missed EXCEPT ![t] = FALSE]
    /\ pc' = [pc EXCEPT ![t] = "resolve"]
    /\ resolved' = DictSet(resolved, key[t], val[t])
    /\ UNCHANGED <<cacheVars, key, val, cmd, ret, envVars, pureVars, sideVars, replyVars, bootStore, prov>>

\* get_active_mods has returned: mods_command runs get_active_dlc, formats and
\* sends the list; refresh_mods_command sends the count; the handler ends
finish(t) ==
    /\ pc[t] = "done"
    /\ pc' = [pc EXCEPT ![t] = "idle"]
    /\ cmd' = [cmd EXCEPT ![t] = "none"]
    /\ dlc' = [dlc EXCEPT ![t] = (cmd[t] = "mods")]
    /\ reply' = [reply EXCEPT ![t] = "reply"]
    /\ UNCHANGED <<cacheVars, key, val, idx, out, ret, missed, envVars, pureVars, sideVars, user, histVars>>

\* ---- the environments of the parser specifications ----
MaxProfiles == 2
MaxTimestamp == 2

Entry(index, mod_id, display_name) ==
    [index |-> index, mod_id |-> mod_id, display_name |-> display_name]

\* active_mods[0]: "m|abc"  and  active_mods[1]: "n| ab "
TwoEntries == <<Entry(<<48>>, <<109>>, <<97, 98, 99>>), Entry(<<49>>, <<110>>, <<32, 97, 98, 32>>)>>
\* active_mods[0]: "m|a"
NoiseEntry == <<Entry(<<48>>, <<109>>, <<97>>)>>

\* the decoded profile texts: count 0 with entries, count 2 with entries,
\* a malformed count line before "1", count 1 with a one-letter name only
ProfileTexts ==
    {[countTexts |-> <<<<32, 48>>>>, matches |-> TwoEntries],
     [countTexts |-> <<<<32, 50>>>>, matches |-> TwoEntries],
     [countTexts |-> <<<<32, 120>>, <<32, 49>>>>, matches |-> TwoEntries],
     [countTexts |-> <<<<32, 49>>>>, matches |-> NoiseEntry]}

ProfileDirs ==
    {[hasSii |-> TRUE, timestamp |-> ts, decoded |-> TRUE,
      countTexts |-> c.countTexts, matches |-> c.matches] :
        ts \in 1..MaxTimestamp, c \in ProfileTexts}
    \cup {[hasSii |-> h, timestamp |-> ts, decoded |-> FALSE,
           countTexts |-> <<>>, matches |-> <<>>] : h \in BOOLEAN, ts \in 1..MaxTimestamp}

FileA == <<97, 46, 115, 99, 115>>       \* "a.scs"
FileU == <<95, 46, 115, 99, 115>>       \* "_.scs", whose cleaned name is empty
ManifestName == <<77>>                  \* "M"

\* the mod folders: any subset of the two archives, each with or without a manifest name
ModFolders ==
    UNION {[S -> {NoneVal, Str(ManifestName)}] : S \in SUBSET {FileA, FileU}}

----------------------------------------------------------------------------
(* src/lib/bot_core.py: CooldownManager *)

Users == {"u", "w"}
Commands == {"mods", "refreshmods"}

\* BotConfig.user_cooldown_seconds and refresh_global_seconds, and the last
\* clock value explored
UserCooldown == 2
GlobalCooldown == 3
MaxTime == 5

NoCheck ==
    [valid |-> FALSE, user |-> "none", command |-> "none", ok |-> FALSE,
     scope |-> "none", remaining |-> 0, at |-> 0]

\* CooldownManager.__init__ and the bookkeeping of accepted checks
IdleCooldown ==
    /\ user_cooldowns = <<>>
    /\ global_cooldowns = <<>>
    /\ now = 0
    /\ lastCheck = NoCheck
    /\ acceptedAt = [x \in Users \cup {"refreshmods"} |-> -1]

\* variant of CheckCooldown that still rejects when the remaining time is zero
CheckCooldown_RejectAtBoundary(u, command) ==
    LET userWaits == u \in DOMAIN user_cooldowns
                     /\ UserCooldown - (now - user_cooldowns[u]) >= 0
        userRemaining == IF userWaits THEN UserCooldown - (now - user_cooldowns[u]) ELSE 0
        globalRemaining == IF command = "refreshmods" /\ "refreshmods" \in DOMAIN global_cooldowns
                           THEN GlobalCooldown - (now - global_cooldowns["refreshmods"]) ELSE 0
    IN  IF userWaits
        THEN [ok |-> FALSE, scope |-> "user", remaining |-> userRemaining,
              user_cooldowns |-> user_cooldowns, global_cooldowns |-> global_cooldowns]
        ELSE IF globalRemaining > 0
        THEN [ok |-> FALSE, scope |-> "global", remaining |-> globalRemaining,
              user_cooldowns |-> user_cooldowns, global_cooldowns |-> global_cooldowns]
        ELSE [ok |-> TRUE, scope |-> "none", remaining |-> 0,
              user_cooldowns |-> DictSet(user_cooldowns, u, now),
              global_cooldowns |-> IF command = "refreshmods"
                                   THEN DictSet(global_cooldowns, "refreshmods", now)
                                   ELSE global_cooldowns]

\* variant of CheckCooldown that applies the refresh interval to every command
CheckCooldown_GlobalForAll(u, command) ==
    LET userRemaining == IF u \in DOMAIN user_cooldowns
                         THEN UserCooldown - (now - user_cooldowns[u]) ELSE 0
        globalRemaining == IF "refreshmods" \in DOMAIN global_cooldowns
                           THEN GlobalCooldown - (now - global_cooldowns["refreshmods"]) ELSE 0
    IN  IF userRemaining > 0
        THEN [ok |-> FALSE, scope |-> "user", remaining |-> userRemaining,
              user_cooldowns |-> user_cooldowns, global_cooldowns |-> global_cooldowns]
        ELSE IF globalRemaining > 0
        THEN [ok |-> FALSE, scope |-> "global", remaining |-> globalRemaining,
              user_cooldowns |-> user_cooldowns, global_cooldowns |-> global_cooldowns]
        ELSE [ok |-> TRUE, scope |-> "none", remaining |-> 0,
              user_cooldowns |-> DictSet(user_cooldowns, u, now),
              global_cooldowns |-> IF command = "refreshmods"
                                   THEN DictSet(global_cooldowns, "refreshmods", now)
                                   ELSE global_cooldowns]

\* variant of CheckCooldown that records the user's time before the global
\* interval is tested
CheckCooldown_UserFirst(u, command) ==
    LET userRemaining == IF u \in DOMAIN user_cooldowns
                         THEN UserCooldown - (now - user_cooldowns[u]) ELSE 0
        globalRemaining == IF command = "refreshmods" /\ "refreshmods" \in DOMAIN global_cooldowns
                           THEN GlobalCooldown - (now - global_cooldowns["refreshmods"]) ELSE 0
    IN  IF userRemaining > 0
        THEN [ok |-> FALSE, scope |-> "user", remaining |-> userRemaining,
              user_cooldowns |-> user_cooldowns, global_cooldowns |-> global_cooldowns]
        ELSE IF globalRemaining > 0
        THEN [ok |-> FALSE, scope |-> "global", remaining |-> globalRemaining,
              user_cooldowns |-> DictSet(user_cooldowns, u, now),
              global_cooldowns |-> global_cooldowns]
        ELSE [ok |-> TRUE, scope |-> "none", remaining |-> 0,
              user_cooldowns |-> DictSet(user_cooldowns, u, now),
              global_cooldowns |-> IF command = "refreshmods"
                                   THEN DictSet(global_cooldowns, "refreshmods", now)
                                   ELSE global_cooldowns]

\* CooldownManager.check_cooldown: the (ok, message) it returns and the two
\* dicts it leaves; the message is its scope and the seconds it names
CheckCooldown(u, command) ==
    LET userRemaining == IF u \in DOMAIN user_cooldowns
                         THEN UserCooldown - (now - user_cooldowns[u]) ELSE 0
        globalRemaining == IF command = "refreshmods" /\ "refreshmods" \in DOMAIN global_cooldowns
                           THEN GlobalCooldown - (now - global_cooldowns["refreshmods"]) ELSE 0
    IN  IF userRemaining > 0
        THEN [ok |-> FALSE, scope |-> "user", remaining |-> userRemaining,
              user_cooldowns |-> user_cooldowns, global_cooldowns |-> global_cooldowns]
        ELSE IF globalRemaining > 0
        THEN [ok |-> FALSE, scope |-> "global", remaining |-> globalRemaining,
              user_cooldowns |-> user_cooldowns, global_cooldowns |-> global_cooldowns]
        ELSE [ok |-> TRUE, scope |-> "none", remaining |-> 0,
              user_cooldowns |-> DictSet(user_cooldowns, u, now),
              global_cooldowns |-> IF command = "refreshmods"
                                   THEN DictSet(global_cooldowns, "refreshmods", now)
                                   ELSE global_cooldowns]

\* the effect of one check_cooldown(u, command) call on the manager
Checked(u, command) ==
    LET r == CheckCooldown(u, command) IN
    /\ user_cooldowns' = r.user_cooldowns
    /\ global_cooldowns' = r.global_cooldowns
    /\ lastCheck' = [valid |-> TRUE, user |-> u, command |-> command, ok |-> r.ok,
                     scope |-> r.scope, remaining |-> r.remaining, at |-> now]
    /\ acceptedAt' = [x \in DOMAIN acceptedAt |->
                         IF r.ok /\ (x = u \/ (x = "refreshmods" /\ command = "refreshmods"))
                         THEN now ELSE acceptedAt[x]]
    /\ now' = now

\* check_cooldown called directly (as the tests do)
check_cooldown(u, command) ==
    /\ Checked(u, command)
    /\ UNCHANGED <<pureVars, cacheVars, taskVars, scanVars, envVars, replyVars, histVars, instVars, resVars, chunkVars, countVars>>

\* the clock advances by one second
tick ==
    /\ now < MaxTime
    /\ now' = now + 1
    /\ UNCHANGED <<user_cooldowns, global_cooldowns, lastCheck, acceptedAt>>
    /\ UNCHANGED <<pureVars, cacheVars, taskVars, scanVars, envVars, replyVars, histVars, instVars, resVars, chunkVars, countVars>>

----------------------------------------------------------------------------
(* src/lib/bot_core.py: the command handlers of ETS2ModBot *)

\* the part of both handlers before their first suspension that is common:
\* the cooldown check and a fresh record of what this command does
CommandStarts(t, u, command) ==
    /\ pc[t] = "idle"
    /\ Checked(u, command)
    /\ user' = [user EXCEPT ![t] = u]
    /\ cmd' = [cmd EXCEPT ![t] = command]
    /\ idx' = [idx EXCEPT ![t] = 0]
    /\ out' = [out EXCEPT ![t] = <<>>]
    /\ ret' = [ret EXCEPT ![t] = NotReturned]
    /\ reply' = [reply EXCEPT ![t] = "none"]
    /\ dlc' = [dlc EXCEPT ![t] = FALSE]
    /\ UNCHANGED <<lock, key, val, missed, envVars, pureVars, instVars, resVars, chunkVars, countVars>>

\* self.cache.clear() once the lock is free
Cleared ==
    /\ cache' = <<>>
    /\ file' = Unlink(file)
    /\ lastOp' = [op |-> "clear", key |-> <<>>, result |-> NoneVal,
                  held |-> Cardinality(DOMAIN cache)]
    /\ lastSet' = NoSet
    /\ bootStore' = <<>>
    /\ resolved' = <<>>
    /\ prov' = ClearProv

\* ETS2ModBot.mods_command up to its first suspension: a rejected command is
\* about to send the wait message, an accepted one enters get_active_mods
mods_command(t, u) ==
    /\ CommandStarts(t, u, "mods")
    /\ pc' = [pc EXCEPT ![t] = IF CheckCooldown(u, "mods").ok THEN "parse_profile"
                                ELSE "rejected"]
    /\ UNCHANGED <<cache, file, lastOp, lastSet, histVars>>

\* variant of refresh_mods_command that clears the cache before the cooldown check
refresh_mods_command_ClearFirst(t, u) ==
    /\ CommandStarts(t, u, "refreshmods")
    /\ lock = 0
    /\ Cleared
    /\ pc' = [pc EXCEPT ![t] = IF CheckCooldown(u, "refreshmods").ok THEN "parse_profile"
                                ELSE "rejected"]

\* ETS2ModBot.refresh_mods_command up to its first suspension: a rejected
\* command is about to send the wait message; an accepted one clears the
\* cache at once when the lock is free and enters get_active_mods, and waits
\* for the lock otherwise
refresh_mods_command(t, u) ==
    /\ CommandStarts(t, u, "refreshmods")
    /\ IF CheckCooldown(u, "refreshmods").ok /\ lock = 0
       THEN /\ Cleared
            /\ pc' = [pc EXCEPT ![t] = "parse_profile"]
       ELSE /\ pc' = [pc EXCEPT ![t] = IF CheckCooldown(u, "refreshmods").ok THEN "clear"
                                       ELSE "rejected"]
            /\ UNCHANGED <<cache, file, lastOp, lastSet, histVars>>

\* refresh_mods_command: the lock has become free, the cache is cleared and
\* get_active_mods is entered
cache_clear(t) ==
    /\ pc[t] = "clear"
    /\ lock = 0
    /\ Cleared
    /\ pc' = [pc EXCEPT ![t] = "parse_profile"]
    /\ UNCHANGED <<lock, key, val, scanVars, envVars, pureVars, sideVars, replyVars>>

\* the wait message of a rejected command has been sent, the handler returns
wait_sent(t) ==
    /\ pc[t] = "rejected"
    /\ reply' = [reply EXCEPT ![t] = "wait"]
    /\ pc' = [pc EXCEPT ![t] = "idle"]
    /\ cmd' = [cmd EXCEPT ![t] = "none"]
    /\ UNCHANGED <<cacheVars, key, val, idx, out, ret, missed, envVars, pureVars, sideVars,
                   user, dlc, histVars>>

\* the frame of the steps below that end or leave a handler
HandlerFrame ==
    UNCHANGED <<cacheVars, key, val, idx, out, ret, missed, envVars, pureVars, sideVars,
                user, histVars>>

\* mods_command / refresh_mods_command: ctx.send of the wait message raises;
\* the call is outside the try block, the exception leaves the handler and
\* the framework dispatches event_command_error
wait_send_raises(t) ==
    /\ pc[t] = "rejected"
    /\ reply' = [reply EXCEPT ![t] = "escaped"]
    /\ pc' = [pc EXCEPT ![t] = "command_error"]
    /\ UNCHANGED <<cmd, dlc>>
    /\ HandlerFrame

\* ETS2ModBot.event_command_error: the generic message is sent to the invoking
\* user; a send that raises is swallowed
event_command_error(t) ==
    /\ pc[t] = "command_error"
    /\ \E sendOk \in BOOLEAN :
          reply' = [reply EXCEPT ![t] = IF sendOk THEN "failure" ELSE "notice_lost"]
    /\ pc' = [pc EXCEPT ![t] = "idle"]
    /\ cmd' = [cmd EXCEPT ![t] = "none"]
    /\ UNCHANGED dlc
    /\ HandlerFrame

\* _parse_from_folder: mods_path.exists() raises (it is outside the method's
\* try block); get_active_mods lets it through to the handler's except clause
folder_raises(t) ==
    /\ pc[t] = "parse_profile"
    /\ ParseFromProfile(profiles) = <<>>
    /\ pc' = [pc EXCEPT ![t] = "except"]
    /\ UNCHANGED <<cmd, reply, dlc>>
    /\ HandlerFrame

\* refresh_mods_command: ctx.send of the refreshed-count message raises inside
\* the try block
refresh_send_raises(t) ==
    /\ pc[t] = "done" /\ cmd[t] = "refreshmods"
    /\ pc' = [pc EXCEPT ![t] = "except"]
    /\ UNCHANGED <<cmd, reply, dlc>>
    /\ HandlerFrame

\* mods_command: get_active_dlc and _format_response have run and ctx.send of
\* a chunk raises in _send_chunked_message, which swallows the exception; the
\* handler returns without any further message
chunk_send_raises(t) ==
    /\ pc[t] = "done" /\ cmd[t] = "mods"
    /\ dlc' = [dlc EXCEPT ![t] = TRUE]
    /\ reply' = [reply EXCEPT ![t] = "chunk_lost"]
    /\ pc' = [pc EXCEPT ![t] = "idle"]
    /\ cmd' = [cmd EXCEPT ![t] = "none"]
    /\ HandlerFrame

\* the except clause of mods_command / refresh_mods_command: the failure notice
\* is sent to the invoking user; a send that raises is swallowed
error_notice(t) ==
    /\ pc[t] = "except"
    /\ \E sendOk \in BOOLEAN :
          reply' = [reply EXCEPT ![t] = IF sendOk THEN "failure" ELSE "notice_lost"]
    /\ pc' = [pc EXCEPT ![t] = "idle"]
    /\ cmd' = [cmd EXCEPT ![t] = "none"]
    /\ UNCHANGED dlc
    /\ HandlerFrame

----------------------------------------------------------------------------
(* src/lib/bot_core.py: SingleInstanceLock *)

Procs == {1, 2}

NoMarker == [exists |-> FALSE, text |-> <<>>]

\* str(os.getpid()) of process p
Pid(p) == <<48 + p>>

\* int(raw) succeeds: an optional sign, then decimal digits
IntParses(raw) ==
    LET body == IF raw # <<>> /\ raw[1] \in {43, 45} THEN Tail(raw) ELSE raw
    IN  AllDigits(body)

\* int(raw) when it succeeds
IntValue(raw) ==
    IF raw[1] = 45 THEN 0 - IntOfDigits(Tail(raw))
    ELSE IF raw[1] = 43 THEN IntOfDigits(Tail(raw))
    ELSE IntOfDigits(raw)

\* psutil.pid_exists(n): n is the id of a process that is running
PidExists(n) == \E q \in Procs : n = q /\ ipc[q] \notin {"off", "exited", "released"}

\* the marker contents an acquire() can meet: "", "x", "9" (no such process),
\* " 9\n", "-1", "9x", "2" (the other process)
MarkerTexts ==
    {<<>>, <<120>>, <<57>>, <<32, 57, 10>>, <<45, 49>>, <<57, 120>>, Pid(2)}
Markers == {NoMarker} \cup {[exists |-> TRUE, text |-> m] : m \in MarkerTexts}

\* process 1 is about to call acquire(); process 2 is not running or runs and
\* holds the lock; the marker file is absent or holds any of MarkerTexts
InitInstance ==
    /\ HAS_PSUTIL \in BOOLEAN
    /\ lock_file \in Markers
    /\ ipc \in {[p \in Procs |-> "off"], [p \in Procs |-> IF p = 2 THEN "held" ELSE "off"]}
    /\ iraw = [p \in Procs |-> <<>>]

\* SingleInstanceLock.acquire: if self.lock_file.exists()
acquire_exists(p) ==
    /\ ipc[p] = "off"
    /\ ipc' = [ipc EXCEPT ![p] = IF lock_file.exists THEN "read" ELSE "open_w"]
    /\ UNCHANGED <<HAS_PSUTIL, lock_file, iraw>>
    /\ UNCHANGED <<pureVars, cacheVars, taskVars, scanVars, envVars, coolVars, replyVars,
                   histVars, resVars, chunkVars, countVars>>

\* _handle_existing_lock: the marker is opened and read, raw = content.strip();
\* a marker removed meanwhile raises FileNotFoundError and the method returns
handle_read(p) ==
    /\ ipc[p] = "read"
    /\ IF lock_file.exists
       THEN /\ iraw' = [iraw EXCEPT ![p] = Strip(lock_file.text)]
            /\ ipc' = [ipc EXCEPT ![p] = "decide"]
       ELSE /\ ipc' = [ipc EXCEPT ![p] = "open_w"]
            /\ UNCHANGED iraw
    /\ UNCHANGED <<HAS_PSUTIL, lock_file>>
    /\ UNCHANGED <<pureVars, cacheVars, taskVars, scanVars, envVars, coolVars, replyVars,
                   histVars, resVars, chunkVars, countVars>>

\* variant of handle_decide that exits on a marker that is not an integer
handle_decide_InvalidExits(p) ==
    /\ ipc[p] = "decide"
    /\ ipc' = [ipc EXCEPT ![p] =
                 IF ~IntParses(iraw[p]) THEN "exited"
                 ELSE IF HAS_PSUTIL /\ PidExists(IntValue(iraw[p])) THEN "exited"
                 ELSE "unlink"]
    /\ UNCHANGED <<HAS_PSUTIL, lock_file, iraw>>
    /\ UNCHANGED <<pureVars, cacheVars, taskVars, scanVars, envVars, coolVars, replyVars,
                   histVars, resVars, chunkVars, countVars>>

\* variant of handle_decide that never asks whether the process is running
handle_decide_LiveIsStale(p) ==
    /\ ipc[p] = "decide"
    /\ ipc' = [ipc EXCEPT ![p] = "unlink"]
    /\ UNCHANGED <<HAS_PSUTIL, lock_file, iraw>>
    /\ UNCHANGED <<pureVars, cacheVars, taskVars, scanVars, envVars, coolVars, replyVars,
                   histVars, resVars, chunkVars, countVars>>

\* _handle_existing_lock: pid = int(raw); a ValueError leads to the cleanup of
\* the invalid marker; a pid that psutil reports as running leads to
\* sys.exit(1); any other pid leads to the cleanup of the stale marker
handle_decide(p) ==
    /\ ipc[p] = "decide"
    /\ ipc' = [ipc EXCEPT ![p] =
                 IF ~IntParses(iraw[p]) THEN "unlink"
                 ELSE IF HAS_PSUTIL /\ PidExists(IntValue(iraw[p])) THEN "exited"
                 ELSE "unlink"]
    /\ UNCHANGED <<HAS_PSUTIL, lock_file, iraw>>
    /\ UNCHANGED <<pureVars, cacheVars, taskVars, scanVars, envVars, coolVars, replyVars,
                   histVars, resVars, chunkVars, countVars>>

\* _handle_existing_lock: self.lock_file.unlink(); on a marker that is gone
\* the error is swallowed
handle_unlink(p) ==
    /\ ipc[p] = "unlink"
    /\ lock_file' = NoMarker
    /\ ipc' = [ipc EXCEPT ![p] = "open_w"]
    /\ UNCHANGED <<HAS_PSUTIL, iraw>>
    /\ UNCHANGED <<pureVars, cacheVars, taskVars, scanVars, envVars, coolVars, replyVars,
                   histVars, resVars, chunkVars, countVars>>

\* acquire: aiofiles.open(self.lock_file, "w") creates or truncates the marker
write_open(p) ==
    /\ ipc[p] = "open_w"
    /\ lock_file' = [exists |-> TRUE, text |-> <<>>]
    /\ ipc' = [ipc EXCEPT ![p] = "write"]
    /\ UNCHANGED <<HAS_PSUTIL, iraw>>
    /\ UNCHANGED <<pureVars, cacheVars, taskVars, scanVars, envVars, coolVars, replyVars,
                   histVars, resVars, chunkVars, countVars>>

\* acquire: f.write(str(os.getpid())) and the file is closed; acquire returns
write_pid(p) ==
    /\ ipc[p] = "write"
    /\ lock_file' = IF lock_file.exists THEN [exists |-> TRUE, text |-> Pid(p)] ELSE lock_file
    /\ ipc' = [ipc EXCEPT ![p] = "held"]
    /\ UNCHANGED <<HAS_PSUTIL, iraw>>
    /\ UNCHANGED <<pureVars, cacheVars, taskVars, scanVars, envVars, coolVars, replyVars,
                   histVars, resVars, chunkVars, countVars>>

\* SingleInstanceLock.release: the marker is removed if present
release(p) ==
    /\ ipc[p] = "held"
    /\ lock_file' = NoMarker
    /\ ipc' = [ipc EXCEPT ![p] = "released"]
    /\ UNCHANGED <<HAS_PSUTIL, iraw>>
    /\ UNCHANGED <<pureVars, cacheVars, taskVars, scanVars, envVars, coolVars, replyVars,
                   histVars, resVars, chunkVars, countVars>>

\* no process has called acquire(), no marker file
IdleInstance ==
    /\ HAS_PSUTIL = TRUE
    /\ lock_file = NoMarker
    /\ ipc = [p \in Procs |-> "off"]
    /\ iraw = [p \in Procs |-> <<>>]

\* variant of GetModDisplayName that asks the catalog before the manifest
GetModDisplayName_SteamBeforeManifest(in) ==
    LET cached == IF in.getRaises THEN NoneVal ELSE in.cached IN
    IF Truthy(cached)
    THEN [raised |-> FALSE, name |-> cached.text, step |-> "cache", written |-> NoneVal]
    ELSE IF Truthy(in.steam)
    THEN [raised |-> FALSE, name |-> in.steam.text, step |-> "steam",
          written |-> Str(in.steam.text)]
    ELSE IF Truthy(in.manifest)
    THEN [raised |-> FALSE, name |-> in.manifest.text, step |-> "manifest",
          written |-> Str(in.manifest.text)]
    ELSE [raised |-> FALSE, name |-> CleanFilename(in.filename), step |-> "filename",
          written |-> Str(CleanFilename(in.filename))]

\* ModParser._get_mod_display_name as one call: `in` gives what cache.get
\* returns or that it raises, what _extract_from_manifest and
\* _lookup_steam_workshop return (None on every error inside them) and
\* whether cache.set raises; every cache call sits in try/except Exception,
\* so no outcome of `in` makes the call raise.  The result names the step
\* that produced the name and the value handed to cache.set.
GetModDisplayName(in) ==
    LET cached == IF in.getRaises THEN NoneVal ELSE in.cached IN
    IF Truthy(cached)
    THEN [raised |-> FALSE, name |-> cached.text, step |-> "cache", written |-> NoneVal]
    ELSE IF Truthy(in.manifest)
    THEN [raised |-> FALSE, name |-> in.manifest.text, step |-> "manifest",
          written |-> Str(in.manifest.text)]
    ELSE IF Truthy(in.steam)
    THEN [raised |-> FALSE, name |-> in.steam.text, step |-> "steam",
          written |-> Str(in.steam.text)]
    ELSE [raised |-> FALSE, name |-> CleanFilename(in.filename), step |-> "filename",
          written |-> Str(CleanFilename(in.filename))]

CachedName == <<67>>                    \* "C"

\* the inputs of one call: either archive, and for each of the three sources
\* no answer, an empty answer or a name; either cache call may raise
ResolverInputs ==
    [filename : {FileA, FileU},
     cached : {NoneVal, Str(<<>>), Str(CachedName)},
     getRaises : BOOLEAN,
     manifest : {NoneVal, Str(<<>>), Str(ManifestName)},
     steam : {NoneVal, Str(<<>>), Str(SteamTitle)},
     setRaises : BOOLEAN]

InitResolver ==
    /\ rin \in ResolverInputs
    /\ rout = [raised |-> FALSE, name |-> <<>>, step |-> "none", written |-> NoneVal]
    /\ rpc = "call"

get_mod_display_name ==
    /\ rpc = "call"
    /\ rout' = GetModDisplayName(rin)
    /\ rpc' = "done"
    /\ UNCHANGED <<rin, pureVars, cacheVars, taskVars, scanVars, envVars, coolVars,
                   replyVars, histVars, instVars, chunkVars, countVars>>

\* _get_mod_display_name not called
IdleResolver ==
    /\ rin = [filename |-> <<>>, cached |-> NoneVal, getRaises |-> FALSE,
              manifest |-> NoneVal, steam |-> NoneVal, setRaises |-> FALSE]
    /\ rout = [raised |-> FALSE, name |-> <<>>, step |-> "none", written |-> NoneVal]
    /\ rpc = "idle"

----------------------------------------------------------------------------
(* src/lib/bot_core.py: ETS2ModBot._send_chunked_message *)

\* the longest message and the largest limit explored
MaxMessage == 4
MaxLimit == 3

\* the characters of a message: "a", "|", ",", " "
MessageChars == {97, 124, 44, 32}

\* chunk.rfind(c): the 0-based index of the last c in chunk, -1 if there is none
RFind(chunk, c) ==
    LET at == {i \in 1..Len(chunk) : chunk[i] = c}
    IN  IF at = {} THEN -1 ELSE (CHOOSE i \in at : \A j \in at : j <= i) - 1

\* max(chunk.rfind("|"), chunk.rfind(","), chunk.rfind(" "))
LastSep(chunk) ==
    LET found == {RFind(chunk, 124), RFind(chunk, 44), RFind(chunk, 32)}
    IN  CHOOSE i \in found : \A j \in found : j <= i

\* the chunk one iteration of the loop cuts off message m: message[:limit],
\* shortened to end before its last separator when that is not its first
\* character
NextChunk(m, lim) ==
    LET chunk == Take(m, lim)
        last_sep == LastSep(chunk)
    IN  IF 0 < last_sep /\ last_sep < Len(chunk) THEN Take(chunk, last_sep) ELSE chunk

\* _send_chunked_message is called with a message and a limit
InitChunks ==
    /\ response \in SeqsUpTo(MessageChars, MaxMessage)
    /\ limit \in 1..MaxLimit
    /\ message = response
    /\ sent = <<>>

\* one iteration of `while message`: the chunk is stripped and sent (a send
\* that raises is swallowed), the rest of the message is stripped and kept
send_chunk ==
    /\ message # <<>>
    /\ sent' = Append(sent, Strip(NextChunk(message, limit)))
    /\ message' = Strip(SubSeq(message, Len(NextChunk(message, limit)) + 1, Len(message)))
    /\ UNCHANGED <<response, limit>>
    /\ UNCHANGED <<pureVars, cacheVars, taskVars, scanVars, envVars, coolVars, replyVars,
                   histVars, instVars, resVars, countVars>>

\* _send_chunked_message not called
IdleChunks ==
    /\ response = <<>>
    /\ limit = 1
    /\ message = <<>>
    /\ sent = <<>>

----------------------------------------------------------------------------
(* src/lib/parser.py: the count heuristic of ModParser._analyze_profile *)

\* the most lines holding the key that a profile text has
MaxLines == 3

\* what follows the colon on such a line: " 0", " 2", " x", "", " 1 "
CountTexts == {<<32, 48>>, <<32, 50>>, <<32, 120>>, <<>>, <<32, 49, 32>>}

InitCount ==
    /\ lines \in SeqsUpTo(CountTexts, MaxLines)
    /\ active_mods_count = 0
    /\ apc = "call"

\* _analyze_profile: mods_count is computed from the decoded content
analyze_profile ==
    /\ apc = "call"
    /\ active_mods_count' = ParseCount(lines)
    /\ apc' = "done"
    /\ UNCHANGED <<lines, pureVars, cacheVars, taskVars, scanVars, envVars, coolVars,
                   replyVars, histVars, instVars, resVars, chunkVars>>

\* _analyze_profile not called
IdleCount ==
    /\ lines = <<>>
    /\ active_mods_count = 0
    /\ apc = "idle"

IdleSide == IdleCooldown /\ IdleInstance /\ IdleResolver /\ IdleChunks /\ IdleCount

----------------------------------------------------------------------------
(* Properties of the cache used by one caller (SpecCache) *)

GetAfterSet == lastOp.op = "get" /\ lastSet.valid /\ lastSet.key = lastOp.key

C8_ClearEmptiesCacheAndFile ==
    lastOp.op = "clear" =>
        /\ cache = <<>>
        /\ \A k \in CacheKeys : CacheGet(cache, k) = NoneVal
        /\ ~file.exists

C8_Witness ==
    lastOp.op = "clear" /\ lastOp.held = 2 /\ cache = <<>> /\ file = NoFile

\* no set() and no clear() is in progress
Quiescent == lock = 0

\* the backing file is absent and the mapping empty, or the file holds the mapping
StorageAgrees ==
    \/ ~file.exists /\ cache = <<>>
    \/ file.exists /\ Load(file) = cache

----------------------------------------------------------------------------
(* Properties of get_active_mods (SpecFacade) *)

\* the count _analyze_profile reports for directory i
ReportedCount(i) == IF profiles[i].decoded THEN ParseCount(profiles[i].countTexts) ELSE 0

Candidates == {i \in 1..Len(profiles) : profiles[i].hasSii}

\* the candidate modified more recently than every other candidate reports count 0
NewestReportsZero ==
    \E i \in Candidates :
        /\ ReportedCount(i) = 0
        /\ \A j \in Candidates \ {i} : profiles[j].timestamp < profiles[i].timestamp

\* an older candidate that would yield records if it were the one parsed
OlderHasMods ==
    \E j \in Candidates :
        /\ ReportedCount(j) # 0
        /\ ExtractMods(profiles[j].matches) # <<>>

\* C1 (as stated): when the most recently modified candidate reports count 0,
\* get_active_mods returns the empty list.
C1_ZeroCountGivesEmptyList ==
    (ret[1].done /\ NewestReportsZero) => ret[1].mods = <<>>

\* C1 (amended): when the most recently modified candidate reports count 0,
\* get_active_mods returns no record of any profile, older ones included: it
\* returns the result of the folder scan, one record of origin "folder" per
\* archive of the mod folder, which is empty exactly when the folder holds no
\* archive.
C1_ZeroCountGivesFolderScan ==
    (ret[1].done /\ NewestReportsZero) =>
        /\ \A i \in 1..Len(ret[1].mods) : ret[1].mods[i].source = "folder"
        /\ Len(ret[1].mods) = Cardinality(DOMAIN modFolder)
        /\ \A i \in 1..Len(ret[1].mods) : ret[1].mods[i].filename \in DOMAIN modFolder

C1_Witness ==
    /\ ret[1].done /\ NewestReportsZero /\ OlderHasMods
    /\ Len(ret[1].mods) = 2
    /\ ret[1].mods[1].source = "folder"

\* the records of one origin only
AllOfSource(ms, source) == \A i \in 1..Len(ms) : ms[i].source = source

\* C15: when profile-based discovery yields at least one record,
\* get_active_mods returns exactly those records, all of origin "profile",
\* without entering the folder scan or resolving a name and without touching
\* the name cache or its backing file; no returned list mixes the two origins.
C15_ProfileRecordsReturnedAlone ==
    [][\A t \in Tasks :
          /\ (pc[t] = "parse_profile" /\ pc'[t] # pc[t] /\ ParseFromProfile(profiles) # <<>>) =>
                /\ pc'[t] = "done" /\ ret'[t].done
                /\ ret'[t].mods = ParseFromProfile(profiles)
                /\ AllOfSource(ret'[t].mods, "profile")
                /\ idx'[t] = 0 /\ out'[t] = <<>>
                /\ cache' = cache /\ file' = file /\ lastOp' = lastOp
          /\ ret'[t].done =>
                (AllOfSource(ret'[t].mods, "profile") \/ AllOfSource(ret'[t].mods, "folder"))]_vars

\* two profile records are returned although the mod folder holds two archives
C15_Witness ==
    /\ ret[1].done /\ Len(ret[1].mods) = 2 /\ AllOfSource(ret[1].mods, "profile")
    /\ Cardinality(DOMAIN modFolder) = 2
    /\ cmd[1] = "mods" /\ cache = <<>> /\ file = NoFile

\* the directory of the profile _parse_from_profile selects
SelectedDir == profiles[MaxByTimestamp(FindProfiles(profiles)).path]

\* a profile is selected, it was decoded and reports a nonzero count
SelectedIsUsable ==
    /\ FindProfiles(profiles) # <<>>
    /\ SelectedDir.decoded
    /\ ParseCount(SelectedDir.countTexts) # 0

\* task t is in the folder scan or has returned its result
InFolderScan(t) ==
    \/ pc[t] \in {"resolve", "steam", "set", "save_open", "save_write", "save_close", "set_done"}
    \/ (ret[t].done /\ ret[t].mods # <<>> /\ AllOfSource(ret[t].mods, "folder"))

\* C16 (as stated): the folder scan runs only when no profile could be decoded
\* or the selected profile reports count zero; a decoded selected profile with
\* a nonzero count never triggers it, and when none of its entries survive the
\* result is the empty list.
C16_FallbackOnlyWithoutProfile ==
    \A t \in Tasks :
        SelectedIsUsable =>
            /\ ~InFolderScan(t)
            /\ (ret[t].done /\ ExtractMods(SelectedDir.matches) = <<>>) => ret[t].mods = <<>>

\* C16 (amended): the folder scan runs exactly when profile-based discovery
\* yields no record: no candidate, a selected profile that is not decoded or
\* reports count zero, or a selected profile none of whose entries survive the
\* extraction; the result is then the folder scan, one record per archive.  A
\* decoded selected profile with a nonzero count and at least one surviving
\* entry never triggers the folder scan.
C16_FallbackWhenNoRecord ==
    \A t \in Tasks :
        (InFolderScan(t) \/ ret[t].done) =>
            LET found == IF SelectedIsUsable THEN ExtractMods(SelectedDir.matches) ELSE <<>>
            IN  /\ found # <<>> =>
                      /\ ~InFolderScan(t)
                      /\ ret[t].done => ret[t].mods = found
                /\ (ret[t].done /\ found = <<>>) =>
                      /\ AllOfSource(ret[t].mods, "folder")
                      /\ Len(ret[t].mods) = Cardinality(DOMAIN modFolder)

\* the selected profile reports count 1 and its only entry is dropped: the two
\* archives of the mod folder are returned
C16_Witness ==
    /\ ret[1].done /\ SelectedIsUsable /\ ExtractMods(SelectedDir.matches) = <<>>
    /\ Len(ret[1].mods) = 2 /\ AllOfSource(ret[1].mods, "folder")

\* a directory whose profile.sii exists and could not be decoded
Undecodable(i) == profiles[i].hasSii /\ ~profiles[i].decoded

\* directory i is a candidate of _find_profiles with count 0, it is the
\* selected profile, and the result is the folder scan
UndecodableWins(i) ==
    /\ \E n \in 1..Len(FindProfiles(profiles)) :
          FindProfiles(profiles)[n].path = i /\ FindProfiles(profiles)[n].mods_count = 0
    /\ MaxByTimestamp(FindProfiles(profiles)).path = i
    /\ AllOfSource(ret[1].mods, "folder")
    /\ Len(ret[1].mods) = Cardinality(DOMAIN modFolder)

\* C28 (as stated): a profile directory whose configuration file exists but
\* cannot be decoded is a candidate with count 0; when it has the maximum
\* timestamp it is the selected profile, profile-based discovery yields no
\* record and no older decodable profile is used.
C28_UndecodableNewestWins ==
    ret[1].done =>
        \A i \in 1..Len(profiles) :
            (Undecodable(i) /\ \A j \in Candidates : profiles[j].timestamp <= profiles[i].timestamp)
                => UndecodableWins(i)

\* C28 (amended): the same, when it has the maximum timestamp and no candidate
\* listed before it has that timestamp too (max() selects the first of the
\* candidates that share the maximum).
C28_UndecodableFirstNewestWins ==
    ret[1].done =>
        \A i \in 1..Len(profiles) :
            (/\ Undecodable(i)
             /\ \A j \in Candidates : profiles[j].timestamp <= profiles[i].timestamp
             /\ \A j \in Candidates : j < i => profiles[j].timestamp < profiles[i].timestamp)
                => UndecodableWins(i)

\* an older profile with two usable entries, a newer one that is not decoded:
\* the two archives of the mod folder are returned
C28_Witness ==
    /\ ret[1].done /\ Len(profiles) = 2
    /\ profiles[1].decoded /\ profiles[1].timestamp = 1 /\ ParseFromProfile(<<profiles[1]>>) # <<>>
    /\ Undecodable(2) /\ profiles[2].timestamp = 2
    /\ Len(ret[1].mods) = 2 /\ AllOfSource(ret[1].mods, "folder")

----------------------------------------------------------------------------
(* Properties of the cooldowns (SpecCooldown) *)

\* the user's own interval is still running at the current time
UserRunning(u) == acceptedAt[u] >= 0 /\ now < acceptedAt[u] + UserCooldown

\* the refresh interval is still running at the current time
GlobalRunning == acceptedAt["refreshmods"] >= 0 /\ now < acceptedAt["refreshmods"] + GlobalCooldown

C13_ResolvedNameIsServedFromCache ==
    [][\A t \in Tasks :
          (pc[t] = "resolve" /\ idx[t] < Len(ScsFiles)
           /\ (pc'[t] # pc[t] \/ idx'[t] # idx[t])) =>
              LET k == ScsFiles[idx[t] + 1] IN
              k \in DOMAIN resolved =>
                  /\ pc'[t] = "resolve"
                  /\ idx'[t] = idx[t] + 1
                  /\ out'[t] = Append(out[t], FolderMod(t, resolved[k]))
                  /\ cache' = cache /\ file' = file]_vars

\* the cache lookup succeeded: it did not raise and gave a non-empty name
CacheHit == ~rin.getRaises /\ Truthy(rin.cached)

\* C14: the resolver returns the name of the first step that gives one, in the
\* order cache, manifest, catalog, filename heuristic; the heuristic is used
\* only when the three earlier steps gave nothing; the call never raises,
\* also when cache.get or cache.set raises or the catalog gives no answer.
C14_FirstSuccessWins ==
    rpc = "done" =>
        /\ ~rout.raised
        /\ CacheHit => (rout.step = "cache" /\ rout.name = rin.cached.text)
        /\ (~CacheHit /\ Truthy(rin.manifest)) =>
              (rout.step = "manifest" /\ rout.name = rin.manifest.text)
        /\ (~CacheHit /\ ~Truthy(rin.manifest) /\ Truthy(rin.steam)) =>
              (rout.step = "steam" /\ rout.name = rin.steam.text)
        /\ rout.step = "filename" =>
              /\ ~CacheHit /\ ~Truthy(rin.manifest) /\ ~Truthy(rin.steam)
              /\ rout.name = CleanFilename(rin.filename)
        /\ rout.step \in {"cache", "manifest", "steam", "filename"}

\* cache.get raised, the archive has a manifest name and the catalog a title:
\* the manifest name is returned although cache.set raised too
C14_Witness ==
    /\ rpc = "done" /\ rin.getRaises /\ rin.setRaises
    /\ rin.cached = Str(CachedName)
    /\ rin.manifest = Str(ManifestName) /\ rin.steam = Str(SteamTitle)
    /\ rout.name = ManifestName /\ ~rout.raised

\* C29: a rejected check_cooldown changes no state: neither the invoking
\* user's time nor the time of the global refresh interval is updated, so
\* repeated rejected attempts never extend a cooldown and a refresh rejected
\* by the global interval does not start the invoking user's own cooldown.
C29_RejectedCheckChangesNothing ==
    [][(lastCheck' # lastCheck /\ ~lastCheck'.ok) =>
          /\ user_cooldowns' = user_cooldowns
          /\ global_cooldowns' = global_cooldowns
          /\ (lastCheck'.scope = "global" /\ lastCheck'.user \notin DOMAIN user_cooldowns) =>
                lastCheck'.user \notin DOMAIN user_cooldowns']_vars

\* w was rejected by the global interval two seconds after u's refresh and
\* has no time recorded; u's times are those of the refresh
C29_Witness ==
    /\ lastCheck.valid /\ ~lastCheck.ok /\ lastCheck.scope = "global" /\ lastCheck.user = "w"
    /\ lastCheck.at = 2
    /\ user_cooldowns = DictSet(<<>>, "u", 0)
    /\ global_cooldowns = DictSet(<<>>, "refreshmods", 0)

----------------------------------------------------------------------------
(* Properties of the command handlers (SpecCommands) *)

\* C19: a command that check_cooldown rejects does nothing but send the wait
\* message: from the check to the end of the handler the task runs neither
\* mod discovery nor DLC discovery, and it neither clears nor writes the name
\* cache or its backing file, for "refreshmods" as for "mods".
C19_RejectedOnlySendsWait ==
    [][\A t \in Tasks :
          /\ (pc[t] = "idle" /\ pc'[t] # "idle" /\ ~lastCheck'.ok) =>
                /\ pc'[t] = "rejected"
                /\ reply'[t] = "none" /\ ~dlc'[t] /\ ~ret'[t].done
                /\ cache' = cache /\ file' = file /\ lastOp' = lastOp
          /\ (pc[t] = "rejected" /\ pc'[t] # "rejected") =>
                /\ pc'[t] = "idle"
                /\ reply'[t] = "wait" /\ ~dlc'[t] /\ ~ret'[t].done
                /\ idx'[t] = 0 /\ out'[t] = <<>>
                /\ cache' = cache /\ file' = file /\ lastOp' = lastOp]_vars

\* a refresh was rejected and has sent its wait message while the cache and
\* its file hold a name
C19_Witness ==
    /\ \E t \in Tasks : pc[t] = "idle" /\ reply[t] = "wait" /\ user[t] = lastCheck.user
    /\ lastCheck.valid /\ ~lastCheck.ok /\ lastCheck.command = "refreshmods"
    /\ cache # <<>> /\ file.exists /\ file.doc # <<>>

----------------------------------------------------------------------------
(* Properties of the handlers when a send or the discovery raises (SpecErrors) *)

\* C22: any exception raised while a command is served (in the cooldown
\* reply, the discovery, the formatting or the sending) is caught at the
\* command boundary and a generic failure message is sent to the invoking
\* user; no exception leaves the handler, also when sending the failure
\* message itself fails.
C22_ExceptionsCaughtAndReported ==
    [][\A t \in Tasks :
          /\ reply'[t] # "escaped"
          /\ reply'[t] # "chunk_lost"
          /\ (pc[t] \in {"except", "command_error"} /\ pc'[t] # pc[t]) =>
                 (pc'[t] = "idle" /\ reply'[t] \in {"failure", "notice_lost"})]_vars

----------------------------------------------------------------------------
(* Properties of the chunked sending (SpecChunks) *)

\* C23: _send_chunked_message sends a response that is not longer than the
\* limit as exactly one segment holding the whole response; only a response
\* longer than the limit is split into several segments.
C23_ShortResponseIsOneSegment ==
    (message = <<>> /\ response # <<>> /\ Len(response) <= limit) =>
        (Len(sent) = 1 /\ sent[1] = Strip(response))

----------------------------------------------------------------------------
(* Properties of the count heuristic (SpecCount) *)

\* the value int() gives for the text after the colon
CountValue(t) == IntOfDigits(Strip(t))

\* the lines whose value is a decimal integer
WellFormed == {i \in 1..Len(lines) : Strip(lines[i]) # <<>> /\ \A j \in 1..Len(Strip(lines[i])) : IsDigit(Strip(lines[i])[j])}

\* C24 (as stated): the first line matching the activation-count key decides
\* the count: a malformed integer there gives 0 even when a later matching
\* line holds a valid integer, and no matching line gives 0.
C24_FirstMatchDecides ==
    apc = "done" =>
        active_mods_count = (IF lines # <<>> /\ 1 \in WellFormed THEN CountValue(lines[1]) ELSE 0)

\* C24 (amended): the first matching line whose value is a well-formed
\* integer decides the count, malformed lines before it are skipped; the
\* count is 0 when no matching line holds a well-formed integer, and when no
\* line matches.
C24_FirstWellFormedDecides ==
    apc = "done" =>
        active_mods_count = (IF WellFormed = {} THEN 0
                      ELSE CountValue(lines[CHOOSE i \in WellFormed : \A j \in WellFormed : i <= j]))

\* the lines ": x" and ": 2": the count is 2
C24_Witness ==
    apc = "done" /\ lines = <<<<32, 120>>, <<32, 50>>>> /\ active_mods_count = 2

----------------------------------------------------------------------------
(* Properties of the single-instance marker (SpecInstance) *)

\* the text is a decimal integer: digits only, after trimming
DecimalText(raw) == raw # <<>> /\ \A i \in 1..Len(raw) : raw[i] \in 48..57

\* the marker process 1 read is stale: not a decimal integer, or the id of a
\* process that is not running
StaleMarker ==
    \/ ~DecimalText(iraw[1])
    \/ ~\E q \in Procs : Pid(q) = iraw[1] /\ ipc[q] \in {"read", "decide", "unlink", "open_w", "write", "held"}

\* C20: acquire() on a marker that is not a decimal integer, or that names a
\* process no longer alive, treats it as stale: it removes the marker, goes on
\* and completes; when acquire() has returned the marker holds the id of the
\* acquiring process, and after the following release() the marker is gone.
C20_StaleMarkerIsReplaced ==
    [][/\ (ipc[1] = "decide" /\ ipc'[1] # "decide" /\ StaleMarker) => ipc'[1] = "unlink"
       /\ (ipc[1] = "unlink" /\ ipc'[1] # "unlink") =>
              (~lock_file'.exists /\ ipc'[1] = "open_w")
       /\ ipc'[1] = "held" => lock_file' = [exists |-> TRUE, text |-> Pid(1)]
       /\ ipc'[1] = "released" => ~lock_file'.exists]_vars

\* process 1 met the marker "x", acquired and holds the lock
C20_Witness ==
    /\ ipc[1] = "held" /\ iraw[1] = <<120>>
    /\ lock_file = [exists |-> TRUE, text |-> Pid(1)]

\* the marker process 1 read holds the decimal id of a process that is running
LiveMarker == ~StaleMarker

\* acquire() of process 1 ends in sys.exit(1) on a live marker and leaves the
\* marker file as it is
ExitsOnLiveMarker ==
    /\ (ipc[1] = "decide" /\ ipc'[1] # "decide" /\ LiveMarker) =>
           (ipc'[1] = "exited" /\ lock_file' = lock_file)
    /\ ipc[1] = "exited" => (ipc'[1] = "exited" /\ lock_file' = lock_file)
    /\ ipc'[1] = "exited" =>
           (lock_file'.exists /\ Strip(lock_file'.text) = iraw'[1] /\ LiveMarker')

C30_ReleaseRemovesOwnMarkerOnly ==
    [][\A p \in Procs :
          (ipc[p] = "held" /\ ipc'[p] = "released") =>
              IF lock_file.exists /\ Strip(lock_file.text) = Pid(p)
              THEN ~lock_file'.exists
              ELSE lock_file' = lock_file]_vars

\* C25: when two processes run acquire() on the same marker file concurrently,
\* at most one of them completes acquire() as the holder while the other is
\* alive: the two never both hold the lock.
C25_AtMostOneHolder == ~(ipc[1] = "held" /\ ipc[2] = "held")

----------------------------------------------------------------------------
(* Properties of a run of the bot over an existing backing file (SpecRestart) *)

\* C12: every entry the backing file held when the run started is served by
\* the cache lookup of a resolution of the run, and is still in the backing
\* file after a set() of the run; a missing or corrupt file gives an empty
\* cache.
C12_StartupLoadsCache ==
    /\ (lastOp.op = "get" /\ lastOp.key \in DOMAIN bootStore) =>
            lastOp.result = Str(bootStore[lastOp.key])
    /\ lastOp.op = "set" =>
            \A k \in DOMAIN bootStore : CacheGet(Load(file), k) = Str(bootStore[k])
    /\ bootStore = <<>> => (lastOp.op \in {"none", "init"} => cache = <<>>)

----------------------------------------------------------------------------
(* Properties of concurrent commands (SpecBot) *)

\* the tasks inside the modify-and-flush section of set()
InSave == {t \in Tasks : pc[t] \in {"save_open", "save_write", "save_close"}}

\* C11: at most one task is inside the modify-and-flush section of set(), it
\* holds the lock, and while it is inside no other task's set() or clear()
\* changes the in-memory mapping or the backing file.
C11_WritersDoNotOverlap ==
    [][/\ Cardinality(InSave) <= 1
       /\ \A t \in InSave :
             /\ lock = t
             /\ (cache' # cache \/ file' # file) => pc'[t] # pc[t]]_vars

\* one task is flushing while the other has a value to write and waits for the lock
C11_Witness ==
    /\ pc[1] = "save_write" /\ lock = 1
    /\ pc[2] = "set" /\ key[2] = key[1]
    /\ file = TruncatedFile

\* C26: a refresh that runs while another command's name resolution is in
\* flight leaves no pre-clear result behind: once both commands have finished,
\* every entry of the cache and of its backing file comes from a resolution
\* that began after the clear.
C26_NoPreClearEntry ==
    (\A t \in Tasks : pc[t] = "idle") =>
        /\ \A k \in DOMAIN cache : k \notin prov.tainted
        /\ \A k \in DOMAIN Load(file) : k \notin prov.tainted

\* C9: between two cache clears, a key that is in the name cache keeps its
\* value: no step other than a clear removes the key or changes its value.
C9_WrittenValueIsKept ==
    [][lastOp'.op # "clear" =>
          \A k \in DOMAIN cache : k \in DOMAIN cache' /\ cache'[k] = cache[k]]_vars

\* C10: two resolutions of the same archive filename never both find the key
\* missing while both are in progress, and two that have both written hold
\* the same name.
C10_ResolutionsDoNotInterleave ==
    \A t1 \in Tasks : \A t2 \in Tasks \ {t1} :
        (missed[t1] /\ missed[t2]) =>
            /\ key[t1] # key[t2]
            /\ (pc[t1] = "set_done" /\ pc[t2] = "set_done") => val[t1] = val[t2]

----------------------------------------------------------------------------
(* Specifications *)

\* decrypt_file applied to every input of DecoderInputs
InitSpecDecoder == InitDecoder /\ IdleExtractor /\ IdleCache /\ IdleSide
NextSpecDecoder == decrypt_file
SpecDecoder == InitSpecDecoder /\ [][NextSpecDecoder]_vars

\* _extract_mods_from_content applied to every sequence of matches
InitSpecExtractor == IdleDecoder /\ InitExtractor /\ IdleCache /\ IdleSide
NextSpecExtractor == extract_mods_from_content
SpecExtractor == InitSpecExtractor /\ [][NextSpecExtractor]_vars


\* check_cooldown called by two users for both commands as the clock advances
InitSpecCooldown == IdleDecoder /\ IdleExtractor /\ IdleCache /\ IdleSide
NextSpecCooldown ==
    \/ \E u \in Users, command \in Commands : check_cooldown(u, command)
    \/ tick
SpecCooldown == InitSpecCooldown /\ [][NextSpecCooldown]_vars

\* the cache driven by one sequential caller: set, get, clear, restart
InitSpecCache ==
    IdleDecoder /\ IdleExtractor /\ InitCache(NoFile) /\ InitTasks /\ IdleEnv /\ IdleSide
NextSpecCache ==
    \/ \E k \in CacheKeys, v \in CacheValues : call_set(1, k, v)
    \/ set_begin(1)
    \/ save_open(1)
    \/ save_write(1)
    \/ set_end(1)
    \/ return_set(1)
    \/ \E k \in CacheKeys : get(1, k)
    \/ clear(1)
    \/ new_instance_load
SpecCache == InitSpecCache /\ [][NextSpecCache]_vars


\* get_active_mods run by one task over every profile layout and mod folder
InitSpecFacade ==
    /\ IdleDecoder /\ IdleExtractor /\ InitCache(NoFile) /\ InitTasks /\ IdleSide
    /\ profiles \in SeqsUpTo(ProfileDirs, MaxProfiles)
    /\ modFolder \in ModFolders
NextSpecFacade ==
    \/ start_mods(1)
    \/ start_refresh(1)
    \/ profile_found(1)
    \/ profile_empty(1)
    \/ scan_done(1)
    \/ resolve_start(1)
    \/ steam_answer(1)
    \/ set_begin(1)
    \/ save_open(1)
    \/ save_write(1)
    \/ set_end(1)
    \/ resolve_return(1)
    \/ finish(1)
SpecFacade == InitSpecFacade /\ [][NextSpecFacade]_vars

\* get_active_mods run by one task over every profile layout, with the mod
\* folder empty or holding both archives
DiscoveryFolders ==
    {<<>>, [f \in {FileA, FileU} |-> IF f = FileA THEN NoneVal ELSE Str(ManifestName)]}
InitSpecDiscovery ==
    /\ IdleDecoder /\ IdleExtractor /\ InitCache(NoFile) /\ InitTasks /\ IdleSide
    /\ profiles \in SeqsUpTo(ProfileDirs, MaxProfiles)
    /\ modFolder \in DiscoveryFolders
NextSpecDiscovery ==
    \/ start_mods(1)
    \/ start_refresh(1)
    \/ profile_found(1)
    \/ profile_empty(1)
    \/ scan_done(1)
    \/ resolve_start(1)
    \/ steam_answer(1)
    \/ set_begin(1)
    \/ save_open(1)
    \/ save_write(1)
    \/ set_end(1)
    \/ resolve_return(1)
    \/ finish(1)
SpecDiscovery == InitSpecDiscovery /\ [][NextSpecDiscovery]_vars

\* _get_mod_display_name applied to every input of ResolverInputs
InitSpecResolver ==
    /\ IdleDecoder /\ IdleExtractor /\ IdleCache /\ IdleCooldown /\ IdleInstance
    /\ IdleChunks /\ IdleCount /\ InitResolver
NextSpecResolver == get_mod_display_name
SpecResolver == InitSpecResolver /\ [][NextSpecResolver]_vars

\* the two chat commands issued by two users within one second, served by two
\* tasks of the event loop, over a mod folder of one archive
InitSpecCommands ==
    /\ IdleDecoder /\ IdleExtractor /\ InitCache(NoFile) /\ InitTasks /\ IdleSide
    /\ profiles = <<>>
    /\ modFolder = DictSet(<<>>, FileA, NoneVal)
NextSpecCommands ==
    \E t \in Tasks :
        \/ \E u \in Users : mods_command(t, u)
        \/ \E u \in Users : refresh_mods_command(t, u)
        \/ cache_clear(t)
        \/ wait_sent(t)
        \/ profile_empty(t)
        \/ scan_done(t)
        \/ resolve_start(t)
        \/ steam_answer(t)
        \/ set_begin(t)
        \/ save_open(t)
        \/ save_write(t)
        \/ set_end(t)
        \/ resolve_return(t)
        \/ finish(t)
SpecCommands == InitSpecCommands /\ [][NextSpecCommands]_vars

\* the two chat commands issued by two users to one task, where a send and
\* the folder test may raise, over a mod folder that is empty or holds one archive
InitSpecErrors ==
    /\ IdleDecoder /\ IdleExtractor /\ InitCache(NoFile) /\ InitTasks /\ IdleSide
    /\ profiles = <<>>
    /\ modFolder \in {<<>>, DictSet(<<>>, FileA, NoneVal)}
NextSpecErrors ==
    \/ \E u \in Users : mods_command(1, u)
    \/ \E u \in Users : refresh_mods_command(1, u)
    \/ wait_sent(1)
    \/ wait_send_raises(1)
    \/ event_command_error(1)
    \/ profile_empty(1)
    \/ folder_raises(1)
    \/ scan_done(1)
    \/ resolve_start(1)
    \/ steam_answer(1)
    \/ set_begin(1)
    \/ save_open(1)
    \/ save_write(1)
    \/ set_end(1)
    \/ resolve_return(1)
    \/ finish(1)
    \/ refresh_send_raises(1)
    \/ chunk_send_raises(1)
    \/ error_notice(1)
SpecErrors == InitSpecErrors /\ [][NextSpecErrors]_vars

\* _send_chunked_message applied to every message of MessageChars and every limit
InitSpecChunks ==
    /\ IdleDecoder /\ IdleExtractor /\ IdleCache /\ IdleCooldown /\ IdleInstance
    /\ IdleResolver /\ IdleCount /\ InitChunks
NextSpecChunks == send_chunk
SpecChunks == InitSpecChunks /\ [][NextSpecChunks]_vars

\* the count heuristic applied to every list of up to MaxLines matching lines
InitSpecCount ==
    /\ IdleDecoder /\ IdleExtractor /\ IdleCache /\ IdleCooldown /\ IdleInstance
    /\ IdleResolver /\ IdleChunks /\ InitCount
NextSpecCount == analyze_profile
SpecCount == InitSpecCount /\ [][NextSpecCount]_vars

\* one process acquires and releases the lock over every marker it can meet
InitSpecInstance ==
    /\ IdleDecoder /\ IdleExtractor /\ IdleCache /\ IdleCooldown /\ IdleResolver
    /\ IdleChunks /\ IdleCount /\ InitInstance
NextSpecInstance ==
    \/ acquire_exists(1)
    \/ handle_read(1)
    \/ handle_decide(1)
    \/ handle_unlink(1)
    \/ write_open(1)
    \/ write_pid(1)
    \/ release(1)
SpecInstance == InitSpecInstance /\ [][NextSpecInstance]_vars

\* two processes start together with psutil importable and run acquire() and
\* release() step by step over every marker they can meet
InitSpecRace ==
    /\ IdleDecoder /\ IdleExtractor /\ IdleCache /\ IdleCooldown /\ IdleResolver
    /\ IdleChunks /\ IdleCount
    /\ HAS_PSUTIL = TRUE
    /\ lock_file \in Markers
    /\ ipc = [p \in Procs |-> "off"]
    /\ iraw = [p \in Procs |-> <<>>]
NextSpecRace ==
    \E p \in Procs :
        \/ acquire_exists(p)
        \/ handle_read(p)
        \/ handle_decide(p)
        \/ handle_unlink(p)
        \/ write_open(p)
        \/ write_pid(p)
        \/ release(p)
SpecRace == InitSpecRace /\ [][NextSpecRace]_vars

\* the backing files a run can find: none, an empty one, one that holds a
\* name for "a.scs", one that is not UTF-8
StoredName == <<79>>                    \* "O"
StoredFiles ==
    {NoFile, TruncatedFile,
     [exists |-> TRUE, doc |-> Serialize(DictSet(<<>>, FileA, StoredName))],
     [exists |-> TRUE, doc |-> DictSet(<<>>, <<255>>, <<255>>)]}

\* runs of the bot, one command at a time, over an existing backing file
InitSpecRestart ==
    /\ IdleDecoder /\ IdleExtractor /\ InitTasks /\ IdleSide
    /\ \E f \in StoredFiles : InitCache(f)
    /\ profiles = <<>>
    /\ modFolder \in ModFolders
NextSpecRestart ==
    \/ restart
    \/ start_mods(1)
    \/ start_refresh(1)
    \/ profile_empty(1)
    \/ scan_done(1)
    \/ resolve_start(1)
    \/ steam_answer(1)
    \/ set_begin(1)
    \/ save_open(1)
    \/ save_write(1)
    \/ set_end(1)
    \/ resolve_return(1)
    \/ finish(1)
SpecRestart == InitSpecRestart /\ [][NextSpecRestart]_vars

\* two commands served concurrently by the event loop
InitSpecBot ==
    /\ IdleDecoder /\ IdleExtractor /\ InitCache(NoFile) /\ InitTasks /\ IdleSide
    /\ profiles \in {<<>>, <<[hasSii |-> TRUE, timestamp |-> 1, decoded |-> TRUE,
                              countTexts |-> <<<<32, 50>>>>, matches |-> TwoEntries]>>}
    /\ modFolder \in ModFolders
NextSpecBot ==
    \E t \in Tasks :
        \/ start_mods(t)
        \/ start_refresh(t)
        \/ profile_found(t)
        \/ profile_empty(t)
        \/ scan_done(t)
        \/ resolve_start(t)
        \/ steam_answer(t)
        \/ set_begin(t)
        \/ save_open(t)
        \/ save_write(t)
        \/ set_end(t)
        \/ resolve_return(t)
        \/ finish(t)
SpecBot == InitSpecBot /\ [][NextSpecBot]_vars

====
